---- MODULE Spec2Model ----
(***************************************************************************)
(* State-machine model of the benchmark reporting tools:                   *)
(*   src/benchmark_assay/visualize_benchmark.py        (Chart Renderer)    *)
(*   src/benchmark_assay/generate_benchmark_notebook.py (Notebook Emitter) *)
(*                                                                         *)
(* One process invocation is modelled step by step: the loader, the        *)
(* creation of the output directory, and one step per chart saved.  The    *)
(* file system (the output directory and its files) outlives an            *)
(* invocation, so that a second invocation on the same input and output    *)
(* directory can be observed.                                              *)
(***************************************************************************)
EXTENDS Integers, Sequences, FiniteSets, TLC

VARIABLES
    csv,          \* the file at args.csv_file: [kind, columns, rows]
    comparative,  \* args.comparative
    pc,           \* position of the running invocation
    df,           \* the DataFrame main() holds (NoDf before read_data returns)
    sdf,          \* the function-local df rebound by sort_values (a copy)
    configs,      \* df['config_type'].unique(), taken before the sort
    out_exists,   \* output_dir exists on disk
    files,        \* files of output_dir: file name -> data-derived content
    written,      \* names passed to savefig by this invocation, in order
    stdout,       \* messages printed by this invocation
    error,        \* uncaught exception that ended the invocation, or "none"
    exit_code,    \* process exit status, -1 while running
    rerun,        \* the tool has been started again on the same arguments
    prev_files,   \* files of output_dir when the previous invocation ended
    report,       \* args.report and the file it names
    run_name,     \* args.run_name
    vis_exists,   \* output_dir/notebook_visualizations exists on disk
    cells,        \* the list generate_notebook builds
    loaded,       \* what json.load gives for the notebook file, once reopened
    prev_cells,   \* the list the previous invocation built
    vis_files,    \* files of output_dir/notebook_visualizations
    figures,      \* number of figures pyplot holds open
    in_chart,     \* the figure of the chart at pc has been created
    output_dir,   \* args.output_dir of the running invocation
    self,         \* which invocation is running: 1 or 2
    other,        \* the invocation that is not running now: its own state
    disk,         \* the directories other than output_dir: name -> content
    start,        \* the two invocations as they were launched
    solo,         \* invocation -> content of its directory after running alone
    phase,        \* "alone": one after the other; "together": interleaved
    mixed         \* the invocations have been switched while both were under way

\* the Notebook Emitter's own variables
nbvars == <<report, run_name, vis_exists, cells, loaded, prev_cells, vis_files>>

\* pyplot's state and the position inside a chart
figvars == <<figures, in_chart>>

\* two invocations at once: which one runs, and what does not belong to it
parvars == <<output_dir, self, other, disk, start, solo, phase, mixed>>

vars == <<csv, comparative, pc, df, sdf, configs, out_exists, files, written,
          stdout, error, exit_code, rerun, prev_files, nbvars, figvars, parvars>>

----------------------------------------------------------------------------
(* Bounds of the model *)

MaxRows == 2

----------------------------------------------------------------------------
(* Data model: the CSV columns and the values rows are drawn from *)

RequiredColumns ==
    {"block_time", "tps", "latency_ms", "cpu_usage", "memory_usage",
     "blocks_produced", "avg_tx_per_block"}

ConfigColumns == {"configuration", "validators"}

AllColumns == RequiredColumns \cup ConfigColumns

\* configuration names, in Python string order
Configurations == <<"fauxmosis-ufo", "osmosis-comet">>
\* validator counts, in the order of their str()
ValidatorCounts == <<1, 4>>

BlockTimes == {11, 100}
TpsVals == {420, 500}

FullRows ==
    [configuration : {Configurations[i] : i \in DOMAIN Configurations},
     validators : {ValidatorCounts[i] : i \in DOMAIN ValidatorCounts},
     block_time : BlockTimes,
     tps : TpsVals,
     latency_ms : {5},
     cpu_usage : {50},
     memory_usage : {30},
     blocks_produced : {12},
     avg_tx_per_block : {40}]

Restrict(row, columns) == [c \in columns |-> row[c]]

\* headers a results file may carry: the full one, the single-configuration
\* one, and those with one column left out
Headers ==
    {AllColumns, RequiredColumns}
    \cup {AllColumns \ {c} : c \in ConfigColumns \cup {"cpu_usage"}}
    \cup {RequiredColumns \ {c} : c \in RequiredColumns}

TablesOf(columns, n) ==
    UNION {[1..k -> {Restrict(r, columns) : r \in FullRows}] : k \in 0..n}

NoDf == [columns |-> {}, rows |-> <<>>]

----------------------------------------------------------------------------
(* Style tables, lines 18-43 *)

NoColor == "None"

COLORS ==
    [k \in {"fauxmosis-comet-1", "fauxmosis-comet-4", "fauxmosis-ufo-1",
            "fauxmosis-ufo-4", "osmosis-ufo-bridged-1", "osmosis-ufo-bridged-4",
            "osmosis-ufo-patched-1", "osmosis-ufo-patched-4", "osmosis-comet-1",
            "osmosis-comet-4"} |->
        CASE k = "fauxmosis-comet-1" -> "#ff7f0e"
          [] k = "fauxmosis-comet-4" -> "#ff9a41"
          [] k = "fauxmosis-ufo-1" -> "#d62728"
          [] k = "fauxmosis-ufo-4" -> "#ff6b6b"
          [] k = "osmosis-ufo-bridged-1" -> "#2ca02c"
          [] k = "osmosis-ufo-bridged-4" -> "#5fd35f"
          [] k = "osmosis-ufo-patched-1" -> "#9467bd"
          [] k = "osmosis-ufo-patched-4" -> "#b589dc"
          [] k = "osmosis-comet-1" -> "#1f77b4"
          [] k = "osmosis-comet-4" -> "#5aa7d4"]

CONFIG_LABELS ==
    [k \in DOMAIN COLORS |->
        CASE k = "fauxmosis-comet-1" -> "Fauxmosis+CometBFT (1 validator)"
          [] k = "fauxmosis-comet-4" -> "Fauxmosis+CometBFT (4 validators)"
          [] k = "fauxmosis-ufo-1" -> "Fauxmosis+UFO (1 validator)"
          [] k = "fauxmosis-ufo-4" -> "Fauxmosis+UFO (4 validators)"
          [] k = "osmosis-ufo-bridged-1" -> "Osmosis+UFO Bridged (1 validator)"
          [] k = "osmosis-ufo-bridged-4" -> "Osmosis+UFO Bridged (4 validators)"
          [] k = "osmosis-ufo-patched-1" -> "Osmosis+UFO Patched (1 validator)"
          [] k = "osmosis-ufo-patched-4" -> "Osmosis+UFO Patched (4 validators)"
          [] k = "osmosis-comet-1" -> "Osmosis+CometBFT (1 validator)"
          [] k = "osmosis-comet-4" -> "Osmosis+CometBFT (4 validators)"]

\* mutant: the table is not consulted, the default is always returned
DictGet_AlwaysDefault(d, k, default) == default

\* dict.get(key, default)
DictGet(d, k, default) == IF k \in DOMAIN d THEN d[k] ELSE default

----------------------------------------------------------------------------
(* pandas operations the renderer uses *)

\* df[c] as the sequence of its values
Col(rows, c) == [i \in 1..Len(rows) |-> rows[i][c]]

\* df['configuration'] + '-' + df['validators'].astype(str), one row
ConfigType(row) == row["configuration"] \o "-" \o ToString(row["validators"])

\* the configuration names and validator counts a table may hold, each in
\* Python's string order: the five names of COLORS and one it does not
\* know, the two counts of COLORS and one it does not know
KeyConfigurations ==
    <<"custom-chain", "fauxmosis-comet", "fauxmosis-ufo", "osmosis-comet",
      "osmosis-ufo-bridged", "osmosis-ufo-patched">>
KeyValidatorCounts == <<1, 2, 4>>

\* position of a config_type string in Python's string order
StrRank(s) ==
    CHOOSE n \in 1..(Len(KeyConfigurations) * Len(KeyValidatorCounts)) :
        \E i \in DOMAIN KeyConfigurations, j \in DOMAIN KeyValidatorCounts :
            /\ s = KeyConfigurations[i] \o "-" \o ToString(KeyValidatorCounts[j])
            /\ n = (i - 1) * Len(KeyValidatorCounts) + j

\* the sort key of a row for sort_values(by)
SortKey(row, by) ==
    [i \in 1..Len(by) |->
        IF by[i] = "config_type" THEN StrRank(row[by[i]]) ELSE row[by[i]]]

RECURSIVE LexLess(_, _)
LexLess(a, b) ==
    IF a = <<>> \/ b = <<>> THEN FALSE
    ELSE IF Head(a) # Head(b) THEN Head(a) < Head(b)
    ELSE LexLess(Tail(a), Tail(b))

RECURSIVE InsertRow(_, _, _)
InsertRow(sorted, r, by) ==
    IF sorted = <<>> THEN <<r>>
    ELSE IF LexLess(SortKey(r, by), SortKey(Head(sorted), by))
         THEN <<r>> \o sorted
         ELSE <<Head(sorted)>> \o InsertRow(Tail(sorted), r, by)

\* mutant: the sort is left out, the rows stay in file order
SortValues_Unsorted(rows, by) == rows

\* df.sort_values(by): ascending, rows with equal keys keep their order
RECURSIVE SortValues(_, _)
SortValues(rows, by) ==
    IF rows = <<>> THEN <<>>
    ELSE InsertRow(SortValues(SubSeq(rows, 1, Len(rows) - 1), by),
                   rows[Len(rows)], by)

\* Series.unique(): distinct values in order of first appearance
RECURSIVE Unique(_)
Unique(s) ==
    IF s = <<>> THEN <<>>
    ELSE LET u == Unique(SubSeq(s, 1, Len(s) - 1))
         IN  IF \E i \in 1..Len(u) : u[i] = s[Len(s)] THEN u
             ELSE Append(u, s[Len(s)])

RECURSIVE Sum(_)
Sum(s) == IF s = <<>> THEN 0 ELSE Head(s) + Sum(Tail(s))

\* Series.mean(), kept exact as numerator and denominator
Mean(s) == <<Sum(s), Len(s)>>

----------------------------------------------------------------------------
(* What a figure holds when it is saved: its artists, in drawing order *)

\* plt.plot(df['block_time'], df[ycol], 'o-', label=..., color=...)
Line(rows, ycol, label, color) ==
    [kind |-> "line", x |-> Col(rows, "block_time"), y |-> Col(rows, ycol),
     label |-> label, color |-> color, ticks |-> <<>>]

\* ax.bar(bar_positions -/+ bar_width/2, vals, ...) with its tick labels
Bar(vals, label, color, ticks) ==
    [kind |-> "bar", x |-> [i \in 1..Len(vals) |-> i - 1], y |-> vals,
     label |-> label, color |-> color, ticks |-> ticks]

\* the six individual single-configuration charts, lines 81-151
SingleChart(rows, ycol, color) == <<Line(rows, ycol, "", color)>>

\* lines 153-192
CombinedMetrics(rows) ==
    <<Line(rows, "tps", "", NoColor),
      Line(rows, "latency_ms", "", "green"),
      Line(rows, "cpu_usage", "CPU", "red"),
      Line(rows, "memory_usage", "Memory", "purple"),
      Line(rows, "avg_tx_per_block", "", "orange")>>

\* lines 194-247
PerformanceDashboard(rows) ==
    <<Line(rows, "tps", "", NoColor),
      Line(rows, "latency_ms", "", "green"),
      Line(rows, "cpu_usage", "", "red"),
      Line(rows, "memory_usage", "", "purple"),
      Line(rows, "avg_tx_per_block", "", "orange")>>

\* the filter left out: every series gets every row
ConfigDf_AllRows(rows, config) == rows

\* df[df['config_type'] == config]
ConfigDf(rows, config) == SelectSeq(rows, LAMBDA r : r["config_type"] = config)

\* the per-config loop of a comparison chart, lines 266-270 and alike
ComparisonLines(rows, cfgs, ycol) ==
    [i \in 1..Len(cfgs) |->
        Line(ConfigDf(rows, cfgs[i]), ycol,
             DictGet(CONFIG_LABELS, cfgs[i], cfgs[i]),
             DictGet(COLORS, cfgs[i], NoColor))]

\* mutant: the ends of the range left out
Between_Exclusive(bt, block_time) == 9 * block_time < 10 * bt /\ 10 * bt < 11 * block_time

\* Series.between(block_time*0.9, block_time*1.1), both ends inclusive
Between(bt, block_time) == 9 * block_time <= 10 * bt /\ 10 * bt <= 11 * block_time

\* lines 340, 451
representative_block_times == <<1000, 100, 10>>
rep_block_time == 100

\* str.capitalize() on the configuration names
Capitalize(c) ==
    CASE c = "fauxmosis-ufo" -> "Fauxmosis-ufo"
      [] c = "osmosis-comet" -> "Osmosis-comet"
      [] c = "fauxmosis-comet" -> "Fauxmosis-comet"
      [] c = "osmosis-ufo-bridged" -> "Osmosis-ufo-bridged"
      [] c = "osmosis-ufo-patched" -> "Osmosis-ufo-patched"
      [] c = "custom-chain" -> "Custom-chain"
      [] OTHER -> c

\* mutant: a configuration without a matching row gets no bar
ValidatorVals_SkipMissing(rows, block_time, validators) ==
    LET block_df == SelectSeq(rows, LAMBDA r : /\ Between(r["block_time"], block_time)
                                               /\ r["validators"] = validators)
    IN  [i \in 1..Len(block_df) |-> block_df[i]["tps"]]

\* mutant: the last matching row instead of .values[0]
ValidatorVals_LastMatch(rows, block_time, validators) ==
    LET config_types == Unique(Col(rows, "configuration"))
        block_df == SelectSeq(rows, LAMBDA r : Between(r["block_time"], block_time))
        match(config) ==
            SelectSeq(block_df, LAMBDA r : /\ r["configuration"] = config
                                           /\ r["validators"] = validators)
    IN  [i \in 1..Len(config_types) |->
            IF match(config_types[i]) # <<>>
            THEN match(config_types[i])[Len(match(config_types[i]))]["tps"]
            ELSE 0]

\* vals_1 / vals_4, lines 357-368 and 461-472
ValidatorVals(rows, block_time, validators) ==
    LET config_types == Unique(Col(rows, "configuration"))
        block_df == SelectSeq(rows, LAMBDA r : Between(r["block_time"], block_time))
        match(config) ==
            SelectSeq(block_df, LAMBDA r : /\ r["configuration"] = config
                                           /\ r["validators"] = validators)
    IN  [i \in 1..Len(config_types) |->
            IF match(config_types[i]) # <<>>
            THEN match(config_types[i])[1]["tps"]
            ELSE 0]

ValidatorBars(rows, block_time, color1, color4) ==
    LET ticks == [i \in 1..Len(Unique(Col(rows, "configuration"))) |->
                     Capitalize(Unique(Col(rows, "configuration"))[i])]
    IN  <<Bar(ValidatorVals(rows, block_time, 1), "1 Validator", color1, ticks),
          Bar(ValidatorVals(rows, block_time, 4), "4 Validators", color4, ticks)>>

\* lines 337-387: one subplot per representative block time
ValidatorImpact(rows) ==
    ValidatorBars(rows, representative_block_times[1], NoColor, NoColor)
    \o ValidatorBars(rows, representative_block_times[2], NoColor, NoColor)
    \o ValidatorBars(rows, representative_block_times[3], NoColor, NoColor)

\* lines 389-489
ComparativeDashboard(rows, cfgs) ==
    LET labels == [i \in 1..Len(cfgs) |-> DictGet(CONFIG_LABELS, cfgs[i], cfgs[i])]
        avg_cpu == [i \in 1..Len(cfgs) |->
                       Mean(Col(ConfigDf(rows, cfgs[i]), "cpu_usage"))]
        avg_mem == [i \in 1..Len(cfgs) |->
                       Mean(Col(ConfigDf(rows, cfgs[i]), "memory_usage"))]
    IN  ComparisonLines(rows, cfgs, "tps")
        \o ComparisonLines(rows, cfgs, "latency_ms")
        \o <<Bar(avg_cpu, "CPU Usage", "red", labels),
             Bar(avg_mem, "Memory Usage", "purple", labels)>>
        \o ValidatorBars(rows, rep_block_time, "green", "blue")

----------------------------------------------------------------------------
(* Effects shared by the steps *)

\* mutant: an existing file is kept and the figure saved beside it
SaveFig_NoOverwrite(name, content) ==
    LET target == IF name \in DOMAIN files THEN name \o ".1" ELSE name
    IN  /\ files' = [n \in DOMAIN files \cup {target} |->
                        IF n = target THEN content ELSE files[n]]
        /\ written' = Append(written, target)

\* plt.savefig(os.path.join(output_dir, name)): creates or overwrites
SaveFig(name, content) ==
    /\ files' = [n \in DOMAIN files \cup {name} |->
                    IF n = name THEN content ELSE files[n]]
    /\ written' = Append(written, name)

\* an exception nobody catches: traceback, exit status 1
Raise(e) ==
    /\ pc' = "exited"
    /\ error' = e
    /\ exit_code' = 1

\* sys.exit(1) after print(msg)
PrintAndExit1(msg) ==
    /\ stdout' = Append(stdout, msg)
    /\ pc' = "exited"
    /\ exit_code' = 1
    /\ error' = "none"

\* mutant: a chart whose column is absent is skipped without an error
ChartStep_SkipsMissing(here, next, needs, name, content) ==
    /\ pc = here
    /\ IF ~in_chart
       THEN /\ figures' = figures + 1
            /\ in_chart' = TRUE
            /\ UNCHANGED <<pc, files, written, error, exit_code>>
       ELSE /\ in_chart' = FALSE
            /\ figures' = figures - 1
            /\ pc' = next
            /\ UNCHANGED <<error, exit_code>>
            /\ IF needs \subseteq sdf.columns
               THEN SaveFig(name, content)
               ELSE UNCHANGED <<files, written>>
    /\ UNCHANGED <<parvars, nbvars, csv, comparative, df, sdf, configs, out_exists, stdout, rerun,
                   prev_files>>

\* mutant: the figure is saved and never closed
ChartStep_NoClose(here, next, needs, name, content) ==
    /\ pc = here
    /\ IF ~in_chart
       THEN /\ figures' = figures + 1
            /\ in_chart' = TRUE
            /\ UNCHANGED <<pc, files, written, error, exit_code>>
       ELSE /\ in_chart' = FALSE
            /\ IF needs \subseteq sdf.columns
               THEN /\ SaveFig(name, content)
                    /\ pc' = next
                    /\ UNCHANGED <<figures, error, exit_code>>
               ELSE /\ Raise("KeyError")
                    /\ UNCHANGED <<figures, files, written>>
    /\ UNCHANGED <<parvars, nbvars, csv, comparative, df, sdf, configs, out_exists, stdout, rerun,
                   prev_files>>

\* one chart: plt.figure / plt.subplots creates its figure; then the column
\* lookups and plots, savefig and plt.close(). A lookup that fails leaves
\* the figure open in the dying process.
ChartStep(here, next, needs, name, content) ==
    /\ pc = here
    /\ IF ~in_chart
       THEN /\ figures' = figures + 1
            /\ in_chart' = TRUE
            /\ UNCHANGED <<pc, files, written, error, exit_code>>
       ELSE /\ in_chart' = FALSE
            /\ IF needs \subseteq sdf.columns
               THEN /\ SaveFig(name, content)
                    /\ figures' = figures - 1
                    /\ pc' = next
                    /\ UNCHANGED <<error, exit_code>>
               ELSE /\ Raise("KeyError")
                    /\ UNCHANGED <<figures, files, written>>
    /\ UNCHANGED <<parvars, nbvars, csv, comparative, df, sdf, configs, out_exists, stdout, rerun,
                   prev_files>>

----------------------------------------------------------------------------
(* visualize_benchmark.py: main, read_data *)

\* mutant: read_data without the df.empty check
ReadData_NoEmptyCheck ==
    /\ pc = "start"
    /\ IF csv.kind = "missing"
       THEN PrintAndExit1("Error: CSV file not found") /\ UNCHANGED df
       ELSE IF csv.kind = "unparseable"
       THEN PrintAndExit1("Error reading CSV file") /\ UNCHANGED df
       ELSE /\ df' = [columns |-> csv.columns, rows |-> csv.rows]
            /\ pc' = "main_makedirs"
            /\ UNCHANGED <<stdout, error, exit_code>>
    /\ UNCHANGED <<parvars, figvars, nbvars, csv, comparative, sdf, configs, out_exists, files, written,
                   rerun, prev_files>>

\* read_data, lines 53-72
ReadData ==
    /\ pc = "start"
    /\ IF csv.kind = "missing"
       THEN PrintAndExit1("Error: CSV file not found") /\ UNCHANGED df
       ELSE IF csv.kind = "unparseable"
       THEN PrintAndExit1("Error reading CSV file") /\ UNCHANGED df
       ELSE IF csv.rows = <<>>
       THEN PrintAndExit1("Error: CSV file is empty") /\ UNCHANGED df
       ELSE /\ df' = [columns |-> csv.columns, rows |-> csv.rows]
            /\ pc' = "main_makedirs"
            /\ UNCHANGED <<stdout, error, exit_code>>
    /\ UNCHANGED <<parvars, figvars, nbvars, csv, comparative, sdf, configs, out_exists, files, written,
                   rerun, prev_files>>

\* mutant: the mode is chosen by the columns of the table
MainMakedirs_ByColumns ==
    /\ pc = "main_makedirs"
    /\ out_exists' = TRUE
    /\ pc' = IF ConfigColumns \subseteq df.columns THEN "comparative_prepare" ELSE "single_prepare"
    /\ UNCHANGED <<parvars, figvars, nbvars, csv, comparative, df, sdf, configs, files, written, stdout,
                   error, exit_code, rerun, prev_files>>

\* main, lines 499-507: os.makedirs(args.output_dir, exist_ok=True), dispatch
MainMakedirs ==
    /\ pc = "main_makedirs"
    /\ out_exists' = TRUE
    /\ pc' = IF comparative THEN "comparative_prepare" ELSE "single_prepare"
    /\ UNCHANGED <<parvars, figvars, nbvars, csv, comparative, df, sdf, configs, files, written, stdout,
                   error, exit_code, rerun, prev_files>>

----------------------------------------------------------------------------
(* create_single_config_visualizations, lines 74-249 *)

\* mutant: the caller's table is sorted in place
SinglePrepare_SortsInPlace ==
    /\ pc = "single_prepare"
    /\ out_exists' = TRUE
    /\ IF "block_time" \in df.columns
       THEN /\ sdf' = [columns |-> df.columns,
                       rows |-> SortValues(df.rows, <<"block_time">>)]
            /\ df' = sdf'
            /\ pc' = "tps_vs_blocktime"
            /\ UNCHANGED <<error, exit_code>>
       ELSE Raise("KeyError") /\ UNCHANGED <<df, sdf>>
    /\ UNCHANGED <<parvars, figvars, nbvars, csv, comparative, configs, files, written, stdout, rerun,
                   prev_files>>

\* lines 76-79: makedirs, then df = df.sort_values('block_time')
SinglePrepare ==
    /\ pc = "single_prepare"
    /\ out_exists' = TRUE
    /\ IF "block_time" \in df.columns
       THEN /\ sdf' = [columns |-> df.columns,
                       rows |-> SortValues(df.rows, <<"block_time">>)]
            /\ pc' = "tps_vs_blocktime"
            /\ UNCHANGED <<error, exit_code>>
       ELSE Raise("KeyError") /\ UNCHANGED sdf
    /\ UNCHANGED <<parvars, figvars, nbvars, csv, comparative, df, configs, files, written, stdout, rerun,
                   prev_files>>

TpsVsBlocktime ==
    ChartStep("tps_vs_blocktime", "latency_vs_blocktime",
              {"block_time", "tps"}, "tps_vs_blocktime.png",
              SingleChart(sdf.rows, "tps", NoColor))

LatencyVsBlocktime ==
    ChartStep("latency_vs_blocktime", "cpu_vs_blocktime",
              {"block_time", "latency_ms"}, "latency_vs_blocktime.png",
              SingleChart(sdf.rows, "latency_ms", "green"))

CpuVsBlocktime ==
    ChartStep("cpu_vs_blocktime", "memory_vs_blocktime",
              {"block_time", "cpu_usage"}, "cpu_vs_blocktime.png",
              SingleChart(sdf.rows, "cpu_usage", "red"))

MemoryVsBlocktime ==
    ChartStep("memory_vs_blocktime", "blocks_vs_blocktime",
              {"block_time", "memory_usage"}, "memory_vs_blocktime.png",
              SingleChart(sdf.rows, "memory_usage", "purple"))

BlocksVsBlocktime ==
    ChartStep("blocks_vs_blocktime", "tx_per_block_vs_blocktime",
              {"block_time", "blocks_produced"}, "blocks_vs_blocktime.png",
              SingleChart(sdf.rows, "blocks_produced", "brown"))

TxPerBlockVsBlocktime ==
    ChartStep("tx_per_block_vs_blocktime", "combined_metrics",
              {"block_time", "avg_tx_per_block"}, "tx_per_block_vs_blocktime.png",
              SingleChart(sdf.rows, "avg_tx_per_block", "orange"))

CombinedMetricsChart ==
    ChartStep("combined_metrics", "performance_dashboard",
              {"block_time", "tps", "latency_ms", "cpu_usage", "memory_usage",
               "avg_tx_per_block"},
              "combined_metrics.png", CombinedMetrics(sdf.rows))

\* mutant: the dashboard is saved under the combined panel's name
PerformanceDashboardChart_SameName ==
    ChartStep("performance_dashboard", "single_return",
              {"block_time", "tps", "latency_ms", "cpu_usage", "memory_usage",
               "avg_tx_per_block"},
              "combined_metrics.png", PerformanceDashboard(sdf.rows))

PerformanceDashboardChart ==
    ChartStep("performance_dashboard", "single_return",
              {"block_time", "tps", "latency_ms", "cpu_usage", "memory_usage",
               "avg_tx_per_block"},
              "performance_dashboard.png", PerformanceDashboard(sdf.rows))

\* line 249, then main returns: exit status 0
SingleReturn ==
    /\ pc = "single_return"
    /\ stdout' = Append(stdout, "Visualizations created in output_dir")
    /\ pc' = "exited"
    /\ exit_code' = 0
    /\ UNCHANGED <<parvars, figvars, nbvars, csv, comparative, df, sdf, configs, out_exists, files,
                   written, error, rerun, prev_files>>

----------------------------------------------------------------------------
(* create_comparative_visualizations, lines 251-491 *)

\* line 256: df['config_type'] = df['configuration'] + '-' + ...
WithConfigType(d) ==
    [columns |-> d.columns \cup {"config_type"},
     rows |-> [i \in 1..Len(d.rows) |->
                  [c \in d.columns \cup {"config_type"} |->
                      IF c = "config_type" THEN ConfigType(d.rows[i])
                      ELSE d.rows[i][c]]]]

\* mutant: when one of the two columns is absent the key is not derived and
\* the charts are drawn with no series, instead of the lookup failing
ComparativePrepare_NoKey ==
    /\ pc = "comparative_prepare"
    /\ out_exists' = TRUE
    /\ IF ~ ({"configuration", "validators"} \subseteq df.columns)
       THEN /\ sdf' = df
            /\ pc' = "tps_comparison"
            /\ UNCHANGED <<df, configs, error, exit_code>>
       ELSE /\ df' = WithConfigType(df)
            /\ configs' = Unique(Col(WithConfigType(df).rows, "config_type"))
            /\ IF "block_time" \in df.columns
               THEN /\ sdf' = [columns |-> WithConfigType(df).columns,
                               rows |-> SortValues(WithConfigType(df).rows,
                                            <<"config_type", "block_time">>)]
                    /\ pc' = "tps_comparison"
                    /\ UNCHANGED <<error, exit_code>>
               ELSE Raise("KeyError") /\ UNCHANGED sdf
    /\ UNCHANGED <<parvars, figvars, nbvars, csv, comparative, files, written, stdout, rerun, prev_files>>

\* lines 253-262: makedirs, the config_type column, configs, the sort
ComparativePrepare ==
    /\ pc = "comparative_prepare"
    /\ out_exists' = TRUE
    /\ IF ~ ({"configuration", "validators"} \subseteq df.columns)
       THEN Raise("KeyError") /\ UNCHANGED <<df, sdf, configs>>
       ELSE /\ df' = WithConfigType(df)
            /\ configs' = Unique(Col(WithConfigType(df).rows, "config_type"))
            /\ IF "block_time" \in df.columns
               THEN /\ sdf' = [columns |-> WithConfigType(df).columns,
                               rows |-> SortValues(WithConfigType(df).rows,
                                            <<"config_type", "block_time">>)]
                    /\ pc' = "tps_comparison"
                    /\ UNCHANGED <<error, exit_code>>
               ELSE Raise("KeyError") /\ UNCHANGED sdf
    /\ UNCHANGED <<parvars, figvars, nbvars, csv, comparative, files, written, stdout, rerun, prev_files>>

TpsComparison ==
    ChartStep("tps_comparison", "latency_comparison",
              {"block_time", "tps"}, "tps_comparison.png",
              ComparisonLines(sdf.rows, configs, "tps"))

LatencyComparison ==
    ChartStep("latency_comparison", "cpu_comparison",
              {"block_time", "latency_ms"}, "latency_comparison.png",
              ComparisonLines(sdf.rows, configs, "latency_ms"))

CpuComparison ==
    ChartStep("cpu_comparison", "memory_comparison",
              {"block_time", "cpu_usage"}, "cpu_comparison.png",
              ComparisonLines(sdf.rows, configs, "cpu_usage"))

MemoryComparison ==
    ChartStep("memory_comparison", "validator_impact",
              {"block_time", "memory_usage"}, "memory_comparison.png",
              ComparisonLines(sdf.rows, configs, "memory_usage"))

ValidatorImpactChart ==
    ChartStep("validator_impact", "comparative_dashboard",
              {"configuration", "validators", "block_time", "tps"},
              "validator_impact.png", ValidatorImpact(sdf.rows))

\* mutant: the dashboard is saved under the validator chart's name
ComparativeDashboardChart_SameName ==
    ChartStep("comparative_dashboard", "comparative_return",
              {"configuration", "validators", "block_time", "tps", "latency_ms",
               "cpu_usage", "memory_usage"},
              "validator_impact.png", ComparativeDashboard(sdf.rows, configs))

ComparativeDashboardChart ==
    ChartStep("comparative_dashboard", "comparative_return",
              {"configuration", "validators", "block_time", "tps", "latency_ms",
               "cpu_usage", "memory_usage"},
              "comparative_dashboard.png", ComparativeDashboard(sdf.rows, configs))

\* line 491, then main returns: exit status 0
ComparativeReturn ==
    /\ pc = "comparative_return"
    /\ stdout' = Append(stdout, "Comparative visualizations created in output_dir")
    /\ pc' = "exited"
    /\ exit_code' = 0
    /\ UNCHANGED <<parvars, figvars, nbvars, csv, comparative, df, sdf, configs, out_exists, files,
                   written, error, rerun, prev_files>>

----------------------------------------------------------------------------
(* The tool is started again on the same arguments; the disk is kept *)

Rerun ==
    /\ pc = "exited"
    /\ figures' = 0
    /\ in_chart' = FALSE
    /\ rerun' = TRUE
    /\ prev_files' = files
    /\ pc' = "start"
    /\ df' = NoDf
    /\ sdf' = NoDf
    /\ configs' = <<>>
    /\ written' = <<>>
    /\ stdout' = <<>>
    /\ error' = "none"
    /\ exit_code' = -1
    /\ UNCHANGED <<parvars, nbvars, csv, comparative, out_exists, files>>

----------------------------------------------------------------------------
(* generate_benchmark_notebook.py: Python values and their JSON text *)

\* A str is a sequence of pieces: a run of plain printable ASCII text, or
\* one of the characters json.dump has to escape.
Quote == "\""
Backslash == "\\"
Newline == "\n"
Arrow == "U+2192"
Backtick == "U+0060"

\* Python values, tagged by their type
PyStr(s) == [t |-> "str", v |-> s]
PyInt(n) == [t |-> "int", v |-> n]
PyNone == [t |-> "None", v |-> <<>>]
PyList(s) == [t |-> "list", v |-> s]
\* a dict: its items <<key, value>> in insertion order
PyDict(items) == [t |-> "dict", v |-> items]

\* a list of str
StrList(lines) == PyList([i \in 1..Len(lines) |-> PyStr(lines[i])])

\* dict[key], PyNone when the key is absent
RECURSIVE ItemsGet(_, _, _)
ItemsGet(items, key, i) ==
    IF i > Len(items) THEN PyNone
    ELSE IF items[i][1] = key THEN items[i][2]
    ELSE ItemsGet(items, key, i + 1)

DictItem(d, key) == IF d.t = "dict" THEN ItemsGet(d.v, <<key>>, 1) ELSE PyNone

\* key in dict
HasKey(d, key) ==
    d.t = "dict" /\ \E i \in 1..Len(d.v) : d.v[i][1] = <<key>>

\* mutant: the output fields are added to every cell, whatever its type
create_notebook_cell_AlwaysOutputs(cell_type, content) ==
    PyDict(<< <<(<<"cell_type">>), PyStr(<<cell_type>>)>>,
              <<(<<"metadata">>), PyDict(<<>>)>>,
              <<(<<"source">>), content>>,
              <<(<<"execution_count">>), PyNone>>,
              <<(<<"outputs">>), PyList(<<>>)>> >>)

\* create_notebook_cell, lines 26-38 (metadata is never passed)
create_notebook_cell(cell_type, content) ==
    PyDict(<< <<(<<"cell_type">>), PyStr(<<cell_type>>)>>,
              <<(<<"metadata">>), PyDict(<<>>)>>,
              <<(<<"source">>), content>> >>
           \o IF cell_type = "code"
              THEN << <<(<<"execution_count">>), PyNone>>,
                      <<(<<"outputs">>), PyList(<<>>)>> >>
              ELSE <<>>)

\* the sequences seqs[lo], ..., seqs[hi] joined, by halving the range
RECURSIVE Flatten(_, _, _)
Flatten(seqs, lo, hi) ==
    IF lo > hi THEN <<>>
    ELSE IF lo = hi THEN seqs[lo]
    ELSE LET mid == (lo + hi) \div 2
         IN  Flatten(seqs, lo, mid) \o Flatten(seqs, mid + 1, hi)

\* the indices k of lo..hi with keep[k], in increasing order
RECURSIVE Indices(_, _, _)
Indices(keep, lo, hi) ==
    IF lo > hi THEN <<>>
    ELSE IF lo = hi THEN (IF keep[lo] THEN <<lo>> ELSE <<>>)
    ELSE LET mid == (lo + hi) \div 2
         IN  Indices(keep, lo, mid) \o Indices(keep, mid + 1, hi)

\* mutant: the backslash itself is written unescaped
EscapePiece_RawBackslash(p) ==
    CASE p = Quote -> <<Backslash, Quote>>
      [] p = Newline -> <<Backslash, "n">>
      [] p = Arrow -> <<Backslash, "u2192">>
      [] OTHER -> <<p>>

\* json string escaping (ensure_ascii) of one character
EscapePiece(p) ==
    CASE p = Quote -> <<Backslash, Quote>>
      [] p = Backslash -> <<Backslash, Backslash>>
      [] p = Newline -> <<Backslash, "n">>
      [] p = Arrow -> <<Backslash, "u2192">>
      [] OTHER -> <<p>>

Escape(s) == Flatten([i \in 1..Len(s) |-> EscapePiece(s[i])], 1, Len(s))

\* json.dump(obj, f, indent=2): the text as pieces; a Newline outside a
\* string stands for the line break and indentation between items
RECURSIVE DumpValue(_)

DumpElems(s) ==
    Flatten([i \in 1..Len(s) |->
                DumpValue(s[i]) \o (IF i < Len(s) THEN <<",", Newline>> ELSE <<>>)],
            1, Len(s))

DumpMembers(s) ==
    Flatten([i \in 1..Len(s) |->
                <<Quote>> \o Escape(s[i][1]) \o <<Quote, ":">> \o DumpValue(s[i][2])
                \o (IF i < Len(s) THEN <<",", Newline>> ELSE <<>>)],
            1, Len(s))

DumpValue(v) ==
    CASE v.t = "str" -> <<Quote>> \o Escape(v.v) \o <<Quote>>
      [] v.t = "int" -> <<ToString(v.v)>>
      [] v.t = "None" -> <<"null">>
      [] v.t = "list" ->
            IF Len(v.v) = 0 THEN <<"[", "]">>
            ELSE <<"[", Newline>> \o DumpElems(v.v) \o <<Newline, "]">>
      [] v.t = "dict" ->
            IF Len(v.v) = 0 THEN <<"{", "}">>
            ELSE <<"{", Newline>> \o DumpMembers(v.v) \o <<Newline, "}">>

\* json.load. The scanner is outside a string ("out"), inside one ("in"),
\* or inside one just after the backslash of an escape ("esc")
LexStep(s, p) ==
    CASE s = "out" -> IF p = Quote THEN "in" ELSE "out"
      [] s = "in" -> IF p = Quote THEN "out" ELSE IF p = Backslash THEN "esc" ELSE "in"
      [] s = "esc" -> "in"

\* the scanner's state before each of t[lo], ..., t[hi], s being that before t[lo]
RECURSIVE LexScan(_, _, _, _)
LexScan(t, lo, hi, s) ==
    IF lo > hi THEN <<>>
    ELSE IF lo = hi THEN <<s>>
    ELSE LET mid == (lo + hi) \div 2
             left == LexScan(t, lo, mid, s)
         IN  left \o LexScan(t, mid + 1, hi, LexStep(left[Len(left)], t[mid]))

\* the character an escape stands for; Newline, which no escape yields
\* and no string may hold raw, marks an invalid one
Unescaped(p) ==
    CASE p = Quote -> Quote
      [] p = Backslash -> Backslash
      [] p = "n" -> Newline
      [] p = "u2192" -> Arrow
      [] OTHER -> "invalid"

\* the string whose characters are t[lo], ..., t[hi]
StrToken(t, st, lo, hi) ==
    [k |-> "str",
     v |-> Flatten([i \in lo..hi |->
                       IF st[i] = "esc" THEN <<Unescaped(t[i])>>
                       ELSE IF t[i] = Backslash THEN <<>>
                       ELSE <<t[i]>>], lo, hi),
     bad |-> \E i \in lo..hi :
                \/ st[i] = "esc" /\ Unescaped(t[i]) = "invalid"
                \/ st[i] = "in" /\ t[i] = Newline]

\* the tokens outside strings among t[lo], ..., t[hi], whitespace dropped
SymTokens(t, lo, hi) ==
    IF lo > hi THEN <<>>
    ELSE LET s == SelectSeq(SubSeq(t, lo, hi), LAMBDA p : p # Newline)
         IN  [i \in 1..Len(s) |-> [k |-> "sym", v |-> <<s[i]>>, bad |-> FALSE]]

\* the tokens of the text: strings, and what stands between them
Tokens(t, st) ==
    LET n == Len(t)
        opens == Indices([i \in 1..n |-> st[i] = "out" /\ t[i] = Quote], 1, n)
        closes == Indices([i \in 1..n |-> st[i] = "in" /\ t[i] = Quote], 1, n)
        r == Len(closes)
        open(j) == IF j <= Len(opens) THEN opens[j] ELSE n + 1
        close(j) == IF j = 0 THEN 0 ELSE closes[j]
    IN  Flatten([j \in 0..r |->
                    (IF j = 0 THEN <<>>
                     ELSE <<StrToken(t, st, open(j) + 1, close(j) - 1)>>)
                    \o SymTokens(t, close(j) + 1, open(j + 1) - 1)], 0, r)

IsSym(tok, p) == tok.k = "sym" /\ tok.v = <<p>>

DepthStep(d, tok) ==
    IF IsSym(tok, "[") \/ IsSym(tok, "{") THEN d + 1
    ELSE IF IsSym(tok, "]") \/ IsSym(tok, "}") THEN d - 1
    ELSE d

\* the nesting depth before each of toks[lo], ..., toks[hi]
RECURSIVE DepthScan(_, _, _, _)
DepthScan(toks, lo, hi, d) ==
    IF lo > hi THEN <<>>
    ELSE IF lo = hi THEN <<d>>
    ELSE LET mid == (lo + hi) \div 2
             left == DepthScan(toks, lo, mid, d)
         IN  left \o DepthScan(toks, mid + 1, hi, DepthStep(left[Len(left)], toks[mid]))

Parsed(v) == [ok |-> TRUE, v |-> v]
ParseError == [ok |-> FALSE, v |-> PyNone]

IntLiterals == {ToString(n) : n \in 0..9}
IntOf(p) == CHOOSE n \in 0..9 : ToString(n) = p

\* the items of the container opened at toks[a] and closed at toks[b]:
\* the ranges <<lo, hi>> between its commas
ItemRanges(toks, dp, a, b) ==
    LET d == dp[a]
        cs == Indices([k \in a + 1..b - 1 |->
                          dp[k] <= d \/ (dp[k] = d + 1 /\ IsSym(toks[k], ","))],
                      a + 1, b - 1)
        n == Len(cs) + 1
    IN  IF dp[b] = d + 1 /\ \A i \in 1..Len(cs) : dp[cs[i]] = d + 1
        THEN Parsed([i \in 1..n |-> <<IF i = 1 THEN a + 1 ELSE cs[i - 1] + 1,
                                       IF i = n THEN b - 1 ELSE cs[i] - 1>>])
        ELSE ParseError

\* the values read item by item, if every one was read
AllParsed(items) ==
    IF \A i \in 1..Len(items) : items[i].ok
    THEN Parsed([i \in 1..Len(items) |-> items[i].v])
    ELSE ParseError

\* the value that toks[a], ..., toks[b] spell
RECURSIVE ParseRange(_, _, _, _)

\* "key": value
ParseMember(toks, dp, lo, hi) ==
    IF /\ hi >= lo + 2
       /\ toks[lo].k = "str" /\ ~toks[lo].bad
       /\ IsSym(toks[lo + 1], ":")
    THEN LET val == ParseRange(toks, dp, lo + 2, hi)
         IN  IF val.ok THEN Parsed(<<toks[lo].v, val.v>>) ELSE ParseError
    ELSE ParseError

ParseRange(toks, dp, a, b) ==
    IF a > b THEN ParseError
    ELSE IF a = b
    THEN IF toks[a].k = "str"
         THEN (IF toks[a].bad THEN ParseError ELSE Parsed(PyStr(toks[a].v)))
         ELSE IF toks[a].v = <<"null">> THEN Parsed(PyNone)
         ELSE IF toks[a].v[1] \in IntLiterals THEN Parsed(PyInt(IntOf(toks[a].v[1])))
         ELSE ParseError
    ELSE IF IsSym(toks[a], "[") /\ IsSym(toks[b], "]")
    THEN IF b = a + 1 THEN Parsed(PyList(<<>>))
         ELSE LET rs == ItemRanges(toks, dp, a, b)
                  r == AllParsed([i \in 1..Len(rs.v) |->
                                    ParseRange(toks, dp, rs.v[i][1], rs.v[i][2])])
              IN  IF rs.ok /\ r.ok THEN Parsed(PyList(r.v)) ELSE ParseError
    ELSE IF IsSym(toks[a], "{") /\ IsSym(toks[b], "}")
    THEN IF b = a + 1 THEN Parsed(PyDict(<<>>))
         ELSE LET rs == ItemRanges(toks, dp, a, b)
                  r == AllParsed([i \in 1..Len(rs.v) |->
                                    ParseMember(toks, dp, rs.v[i][1], rs.v[i][2])])
              IN  IF rs.ok /\ r.ok THEN Parsed(PyDict(r.v)) ELSE ParseError
    ELSE ParseError

\* json.load(f): the whole text is one value
JsonLoad(t) ==
    LET n == Len(t)
        st == LexScan(t, 1, n, "out")
        toks == Tokens(t, st)
        dp == DepthScan(toks, 1, Len(toks), 0)
    IN  IF n = 0 THEN ParseError
        ELSE IF LexStep(st[n], t[n]) # "out" THEN ParseError
        ELSE ParseRange(toks, dp, 1, Len(toks))

----------------------------------------------------------------------------
(* generate_notebook: the cells, lines 67-547 *)

\* lines 67-71
NbTitleCell(display_run_name) ==
    create_notebook_cell("markdown", StrList(<<
        <<"# ">> \o display_run_name \o <<Newline, Newline>>,
        <<"This notebook provides an interactive analysis of UFO performance benchmark results. ">>,
        <<"It includes visualizations comparing different configurations and raw data for further analysis.">>
    >>))

\* lines 74-108
NbImportsCell ==
    create_notebook_cell("code", StrList(<<
        <<"import pandas as pd", Newline>>,
        <<"import matplotlib.pyplot as plt", Newline>>,
        <<"import matplotlib.colors as mcolors", Newline>>,
        <<"import numpy as np", Newline>>,
        <<"import seaborn as sns", Newline>>,
        <<"import os", Newline>>,
        <<Newline>>,
        <<"# Set up visualization style", Newline>>,
        <<"plt.style.use('ggplot')", Newline>>,
        <<"sns.set_theme(style=", Quote, "whitegrid", Quote, ")", Newline>>,
        <<"%matplotlib inline", Newline>>,
        <<"plt.rcParams['figure.figsize'] = [12, 8]", Newline>>,
        <<Newline>>,
        <<"# Create visualizations directory for saving images", Newline>>,
        <<"vis_dir = 'notebook_visualizations'", Newline>>,
        <<"os.makedirs(vis_dir, exist_ok=True)", Newline>>,
        <<Newline>>,
        <<"# Define colors for different configurations", Newline>>,
        <<"CONFIG_COLORS = {", Newline>>,
        <<"    'fauxmosis-comet': '#ff7f0e',", Newline>>,
        <<"    'fauxmosis-ufo': '#d62728',", Newline>>,
        <<"    'osmosis-ufo-bridged': '#2ca02c',", Newline>>,
        <<"    'osmosis-ufo-patched': '#9467bd',", Newline>>,
        <<"    'osmosis-comet': '#1f77b4',", Newline>>,
        <<"}", Newline>>,
        <<Newline>>,
        <<"CONFIG_NAMES = {", Newline>>,
        <<"    'fauxmosis-comet': 'Fauxmosis with CometBFT',", Newline>>,
        <<"    'fauxmosis-ufo': 'Fauxmosis with UFO',", Newline>>,
        <<"    'osmosis-ufo-bridged': 'Osmosis with UFO (Bridged)',", Newline>>,
        <<"    'osmosis-ufo-patched': 'Osmosis with UFO (Patched)',", Newline>>,
        <<"    'osmosis-comet': 'Osmosis with CometBFT',", Newline>>,
        <<"}">>
    >>))

\* lines 111-111
NbBenchmarkDataHeading ==
    create_notebook_cell("markdown", StrList(<<
        <<"## Benchmark Data", Newline, Newline, "Let's load and explore the benchmark data.">>
    >>))

\* lines 116-120
NbLoadDataCell(csv_rel_path) ==
    create_notebook_cell("code", StrList(<<
        <<"# Load benchmark data from CSV", Newline>>,
        <<"df = pd.read_csv('">> \o csv_rel_path \o <<"')", Newline>>,
        <<"df.head()">>
    >>))

\* lines 123-126
NbDescribeCell ==
    create_notebook_cell("code", StrList(<<
        <<"# Show basic statistics", Newline>>,
        <<"df.describe()">>
    >>))

\* lines 129-137
NbConfigTypeCell ==
    create_notebook_cell("code", StrList(<<
        <<"# Create a combined configuration+validators column for easier analysis", Newline>>,
        <<"df['config_type'] = df['configuration'] + '-' + df['validators'].astype(str)", Newline>>,
        <<Newline>>,
        <<"# Show data for different configurations", Newline>>,
        <<"for config in df['config_type'].unique():", Newline>>,
        <<"    print(f", Quote, Backslash, "nConfiguration: {config}", Quote, ")", Newline>>,
        <<"    print(df[df['config_type'] == config][['block_time', 'tps', 'latency_ms', 'cpu_usage', 'memory_usage']].describe())", Newline>>
    >>))

\* lines 140-140
NbVisualizationsHeading ==
    create_notebook_cell("markdown", StrList(<<
        <<"## Visualizations", Newline, Newline, "Let's create visualizations to analyze the benchmark results.">>
    >>))

\* lines 144-144
NbTpsComparisonHeading ==
    create_notebook_cell("markdown", StrList(<<
        <<"### TPS Comparison", Newline, Newline, "Comparing transactions per second (TPS) across different configurations and block times.">>
    >>))

\* lines 145-171
NbTpsComparisonCell ==
    create_notebook_cell("code", StrList(<<
        <<"# Create TPS comparison visualization", Newline>>,
        <<"plt.figure(figsize=(14, 8))", Newline>>,
        <<Newline>>,
        <<"# Create a color map for configurations", Newline>>,
        <<"# Use the new recommended way to get colormaps", Newline>>,
        <<"cmap = plt.colormaps['tab10']", Newline>>,
        <<"color_dict = {config: cmap(i % 10) for i, config in enumerate(sorted(df['config_type'].unique()))}", Newline>>,
        <<Newline>>,
        <<"for config in sorted(df['config_type'].unique()):", Newline>>,
        <<"    config_df = df[df['config_type'] == config]", Newline>>,
        <<"    plt.plot(config_df['block_time'], config_df['tps'], 'o-', ", Newline>>,
        <<"             linewidth=2, label=CONFIG_NAMES.get(config, config),", Newline>>,
        <<"             color=color_dict[config])", Newline>>,
        <<Newline>>,
        <<"plt.xscale('log')", Newline>>,
        <<"plt.xlabel('Block Time (ms)', fontsize=12)", Newline>>,
        <<"plt.ylabel('Transactions Per Second (TPS)', fontsize=12)", Newline>>,
        <<"plt.title('TPS vs Block Time Comparison', fontsize=14)", Newline>>,
        <<"plt.grid(True, which=", Quote, "both", Quote, ", ls=", Quote, "-", Quote, ", alpha=0.2)", Newline>>,
        <<"plt.legend(fontsize=10)", Newline>>,
        <<"plt.tight_layout()", Newline>>,
        <<Newline>>,
        <<"# Save the figure", Newline>>,
        <<"plt.savefig(os.path.join(vis_dir, '", "tps_comparison.png", "'), dpi=300, bbox_inches='tight')", Newline>>,
        <<"plt.show()">>
    >>))

\* lines 174-174
NbLatencyComparisonHeading ==
    create_notebook_cell("markdown", StrList(<<
        <<"### Latency Comparison", Newline, Newline, "Comparing transaction latency across different configurations and block times.">>
    >>))

\* lines 175-196
NbLatencyComparisonCell ==
    create_notebook_cell("code", StrList(<<
        <<"# Create Latency comparison visualization", Newline>>,
        <<"plt.figure(figsize=(14, 8))", Newline>>,
        <<Newline>>,
        <<"for config in sorted(df['config_type'].unique()):", Newline>>,
        <<"    config_df = df[df['config_type'] == config]", Newline>>,
        <<"    plt.plot(config_df['block_time'], config_df['latency_ms'], 'o-', ", Newline>>,
        <<"             linewidth=2, label=CONFIG_NAMES.get(config, config),", Newline>>,
        <<"             color=color_dict[config])", Newline>>,
        <<Newline>>,
        <<"plt.xscale('log')", Newline>>,
        <<"plt.xlabel('Block Time (ms)', fontsize=12)", Newline>>,
        <<"plt.ylabel('Latency (ms)', fontsize=12)", Newline>>,
        <<"plt.title('Latency vs Block Time Comparison', fontsize=14)", Newline>>,
        <<"plt.grid(True, which=", Quote, "both", Quote, ", ls=", Quote, "-", Quote, ", alpha=0.2)", Newline>>,
        <<"plt.legend(fontsize=10)", Newline>>,
        <<"plt.tight_layout()", Newline>>,
        <<Newline>>,
        <<"# Save the figure", Newline>>,
        <<"plt.savefig(os.path.join(vis_dir, '", "latency_comparison.png", "'), dpi=300, bbox_inches='tight')", Newline>>,
        <<"plt.show()">>
    >>))

\* lines 199-199
NbCpuComparisonHeading ==
    create_notebook_cell("markdown", StrList(<<
        <<"### CPU Usage Comparison", Newline, Newline, "Comparing CPU utilization across different configurations and block times.">>
    >>))

\* lines 200-221
NbCpuComparisonCell ==
    create_notebook_cell("code", StrList(<<
        <<"# Create CPU usage comparison visualization", Newline>>,
        <<"plt.figure(figsize=(14, 8))", Newline>>,
        <<Newline>>,
        <<"for config in sorted(df['config_type'].unique()):", Newline>>,
        <<"    config_df = df[df['config_type'] == config]", Newline>>,
        <<"    plt.plot(config_df['block_time'], config_df['cpu_usage'], 'o-', ", Newline>>,
        <<"             linewidth=2, label=CONFIG_NAMES.get(config, config),", Newline>>,
        <<"             color=color_dict[config])", Newline>>,
        <<Newline>>,
        <<"plt.xscale('log')", Newline>>,
        <<"plt.xlabel('Block Time (ms)', fontsize=12)", Newline>>,
        <<"plt.ylabel('CPU Usage (%)', fontsize=12)", Newline>>,
        <<"plt.title('CPU Usage vs Block Time Comparison', fontsize=14)", Newline>>,
        <<"plt.grid(True, which=", Quote, "both", Quote, ", ls=", Quote, "-", Quote, ", alpha=0.2)", Newline>>,
        <<"plt.legend(fontsize=10)", Newline>>,
        <<"plt.tight_layout()", Newline>>,
        <<Newline>>,
        <<"# Save the figure", Newline>>,
        <<"plt.savefig(os.path.join(vis_dir, '", "cpu_comparison.png", "'), dpi=300, bbox_inches='tight')", Newline>>,
        <<"plt.show()">>
    >>))

\* lines 224-224
NbMemoryComparisonHeading ==
    create_notebook_cell("markdown", StrList(<<
        <<"### Memory Usage Comparison", Newline, Newline, "Comparing memory utilization across different configurations and block times.">>
    >>))

\* lines 225-246
NbMemoryComparisonCell ==
    create_notebook_cell("code", StrList(<<
        <<"# Create Memory usage comparison visualization", Newline>>,
        <<"plt.figure(figsize=(14, 8))", Newline>>,
        <<Newline>>,
        <<"for config in sorted(df['config_type'].unique()):", Newline>>,
        <<"    config_df = df[df['config_type'] == config]", Newline>>,
        <<"    plt.plot(config_df['block_time'], config_df['memory_usage'], 'o-', ", Newline>>,
        <<"             linewidth=2, label=CONFIG_NAMES.get(config, config),", Newline>>,
        <<"             color=color_dict[config])", Newline>>,
        <<Newline>>,
        <<"plt.xscale('log')", Newline>>,
        <<"plt.xlabel('Block Time (ms)', fontsize=12)", Newline>>,
        <<"plt.ylabel('Memory Usage (%)', fontsize=12)", Newline>>,
        <<"plt.title('Memory Usage vs Block Time Comparison', fontsize=14)", Newline>>,
        <<"plt.grid(True, which=", Quote, "both", Quote, ", ls=", Quote, "-", Quote, ", alpha=0.2)", Newline>>,
        <<"plt.legend(fontsize=10)", Newline>>,
        <<"plt.tight_layout()", Newline>>,
        <<Newline>>,
        <<"# Save the figure", Newline>>,
        <<"plt.savefig(os.path.join(vis_dir, '", "memory_comparison.png", "'), dpi=300, bbox_inches='tight')", Newline>>,
        <<"plt.show()">>
    >>))

\* lines 249-249
NbValidatorImpactHeading ==
    create_notebook_cell("markdown", StrList(<<
        <<"### Validator Count Impact", Newline, Newline, "Analyzing the impact of validator count on performance metrics.">>
    >>))

\* lines 250-280
NbValidatorImpactCell ==
    create_notebook_cell("code", StrList(<<
        <<"# Analyze Impact of Validator Count", Newline>>,
        <<"# Group by configuration and validators", Newline>>,
        <<"validator_impact = df.groupby(['configuration', 'validators'])['tps'].mean().reset_index()", Newline>>,
        <<"validator_impact = validator_impact.pivot(index='configuration', columns='validators', values='tps')", Newline>>,
        <<"validator_impact['impact_pct'] = ((validator_impact[4] - validator_impact[1]) / validator_impact[1]) * 100", Newline>>,
        <<Newline>>,
        <<"print(", Quote, "Mean TPS by Configuration and Validator Count:", Quote, ")", Newline>>,
        <<"print(validator_impact)", Newline>>,
        <<Newline>>,
        <<"# Plot the impact", Newline>>,
        <<"plt.figure(figsize=(10, 6))", Newline>>,
        <<"bars = plt.bar(validator_impact.index, validator_impact['impact_pct'])", Newline>>,
        <<Newline>>,
        <<"# Color the bars based on positive/negative impact", Newline>>,
        <<"for i, bar in enumerate(bars):", Newline>>,
        <<"    if validator_impact['impact_pct'].iloc[i] < 0:", Newline>>,
        <<"        bar.set_color('firebrick')", Newline>>,
        <<"    else:", Newline>>,
        <<"        bar.set_color('forestgreen')", Newline>>,
        <<Newline>>,
        <<"plt.axhline(y=0, color='black', linestyle='-', alpha=0.3)", Newline>>,
        <<"plt.ylabel('% Change in TPS (1 ", Arrow, " 4 validators)', fontsize=12)", Newline>>,
        <<"plt.title('Impact of Increasing Validator Count from 1 to 4', fontsize=14)", Newline>>,
        <<"plt.grid(True, axis='y', alpha=0.2)", Newline>>,
        <<"plt.tight_layout()", Newline>>,
        <<Newline>>,
        <<"# Save the figure", Newline>>,
        <<"plt.savefig(os.path.join(vis_dir, '", "validator_impact.png", "'), dpi=300, bbox_inches='tight')", Newline>>,
        <<"plt.show()">>
    >>))

\* lines 283-283
NbDashboardHeading ==
    create_notebook_cell("markdown", StrList(<<
        <<"### Comprehensive Dashboard", Newline, Newline, "A comprehensive view of all performance metrics.">>
    >>))

\* lines 284-395
NbDashboardCell ==
    create_notebook_cell("code", StrList(<<
        <<"# Create a comprehensive dashboard with all metrics", Newline>>,
        <<"fig = plt.figure(figsize=(16, 20))", Newline>>,
        <<Newline>>,
        <<"# Use a more flexible GridSpec layout with more space between subplots", Newline>>,
        <<"gs = fig.add_gridspec(4, 2, hspace=0.4, wspace=0.3)", Newline>>,
        <<Newline>>,
        <<"# TPS comparison (top left)", Newline>>,
        <<"ax1 = fig.add_subplot(gs[0, 0])", Newline>>,
        <<"for config in sorted(df['config_type'].unique()):", Newline>>,
        <<"    config_df = df[df['config_type'] == config]", Newline>>,
        <<"    ax1.plot(config_df['block_time'], config_df['tps'], 'o-', ", Newline>>,
        <<"             linewidth=2, label=CONFIG_NAMES.get(config, config),", Newline>>,
        <<"             color=color_dict[config])", Newline>>,
        <<"ax1.set_xscale('log')", Newline>>,
        <<"ax1.set_xlabel('Block Time (ms)')", Newline>>,
        <<"ax1.set_ylabel('TPS')", Newline>>,
        <<"ax1.set_title('TPS vs Block Time')", Newline>>,
        <<"ax1.grid(True, which=", Quote, "both", Quote, ", ls=", Quote, "-", Quote, ", alpha=0.2)", Newline>>,
        <<"ax1.legend(fontsize=8)", Newline>>,
        <<Newline>>,
        <<"# Latency comparison (top right)", Newline>>,
        <<"ax2 = fig.add_subplot(gs[0, 1])", Newline>>,
        <<"for config in sorted(df['config_type'].unique()):", Newline>>,
        <<"    config_df = df[df['config_type'] == config]", Newline>>,
        <<"    ax2.plot(config_df['block_time'], config_df['latency_ms'], 'o-', ", Newline>>,
        <<"             linewidth=2, label=CONFIG_NAMES.get(config, config),", Newline>>,
        <<"             color=color_dict[config])", Newline>>,
        <<"ax2.set_xscale('log')", Newline>>,
        <<"ax2.set_xlabel('Block Time (ms)')", Newline>>,
        <<"ax2.set_ylabel('Latency (ms)')", Newline>>,
        <<"ax2.set_title('Latency vs Block Time')", Newline>>,
        <<"ax2.grid(True, which=", Quote, "both", Quote, ", ls=", Quote, "-", Quote, ", alpha=0.2)", Newline>>,
        <<"ax2.legend(fontsize=8)", Newline>>,
        <<Newline>>,
        <<"# CPU usage (middle left)", Newline>>,
        <<"ax3 = fig.add_subplot(gs[1, 0])", Newline>>,
        <<"for config in sorted(df['config_type'].unique()):", Newline>>,
        <<"    config_df = df[df['config_type'] == config]", Newline>>,
        <<"    ax3.plot(config_df['block_time'], config_df['cpu_usage'], 'o-', ", Newline>>,
        <<"             linewidth=2, label=CONFIG_NAMES.get(config, config),", Newline>>,
        <<"             color=color_dict[config])", Newline>>,
        <<"ax3.set_xscale('log')", Newline>>,
        <<"ax3.set_xlabel('Block Time (ms)')", Newline>>,
        <<"ax3.set_ylabel('CPU Usage (%)')", Newline>>,
        <<"ax3.set_title('CPU Usage vs Block Time')", Newline>>,
        <<"ax3.grid(True, which=", Quote, "both", Quote, ", ls=", Quote, "-", Quote, ", alpha=0.2)", Newline>>,
        <<"ax3.legend(fontsize=8)", Newline>>,
        <<Newline>>,
        <<"# Memory usage (middle right)", Newline>>,
        <<"ax4 = fig.add_subplot(gs[1, 1])", Newline>>,
        <<"for config in sorted(df['config_type'].unique()):", Newline>>,
        <<"    config_df = df[df['config_type'] == config]", Newline>>,
        <<"    ax4.plot(config_df['block_time'], config_df['memory_usage'], 'o-', ", Newline>>,
        <<"             linewidth=2, label=CONFIG_NAMES.get(config, config),", Newline>>,
        <<"             color=color_dict[config])", Newline>>,
        <<"ax4.set_xscale('log')", Newline>>,
        <<"ax4.set_xlabel('Block Time (ms)')", Newline>>,
        <<"ax4.set_ylabel('Memory Usage (%)')", Newline>>,
        <<"ax4.set_title('Memory Usage vs Block Time')", Newline>>,
        <<"ax4.grid(True, which=", Quote, "both", Quote, ", ls=", Quote, "-", Quote, ", alpha=0.2)", Newline>>,
        <<"ax4.legend(fontsize=8)", Newline>>,
        <<Newline>>,
        <<"# TPS vs CPU Efficiency (bottom left)", Newline>>,
        <<"ax5 = fig.add_subplot(gs[2, 0])", Newline>>,
        <<"for config in sorted(df['config_type'].unique()):", Newline>>,
        <<"    config_df = df[df['config_type'] == config]", Newline>>,
        <<"    ax5.scatter(config_df['cpu_usage'], config_df['tps'], ", Newline>>,
        <<"              label=CONFIG_NAMES.get(config, config),", Newline>>,
        <<"              color=color_dict[config], s=100, alpha=0.7)", Newline>>,
        <<"ax5.set_xlabel('CPU Usage (%)')", Newline>>,
        <<"ax5.set_ylabel('TPS')", Newline>>,
        <<"ax5.set_title('Performance Efficiency (TPS vs CPU)')", Newline>>,
        <<"ax5.grid(True, alpha=0.2)", Newline>>,
        <<"ax5.legend(fontsize=8)", Newline>>,
        <<Newline>>,
        <<"# Memory vs TPS (bottom right)", Newline>>,
        <<"ax6 = fig.add_subplot(gs[2, 1])", Newline>>,
        <<"for config in sorted(df['config_type'].unique()):", Newline>>,
        <<"    config_df = df[df['config_type'] == config]", Newline>>,
        <<"    ax6.scatter(config_df['memory_usage'], config_df['tps'], ", Newline>>,
        <<"              label=CONFIG_NAMES.get(config, config),", Newline>>,
        <<"              color=color_dict[config], s=100, alpha=0.7)", Newline>>,
        <<"ax6.set_xlabel('Memory Usage (%)')", Newline>>,
        <<"ax6.set_ylabel('TPS')", Newline>>,
        <<"ax6.set_title('Performance Efficiency (TPS vs Memory)')", Newline>>,
        <<"ax6.grid(True, alpha=0.2)", Newline>>,
        <<"ax6.legend(fontsize=8)", Newline>>,
        <<Newline>>,
        <<"# Validator impact (bottom)", Newline>>,
        <<"ax7 = fig.add_subplot(gs[3, :])", Newline>>,
        <<"bars = ax7.bar(validator_impact.index, validator_impact['impact_pct'])", Newline>>,
        <<"for i, bar in enumerate(bars):", Newline>>,
        <<"    if validator_impact['impact_pct'].iloc[i] < 0:", Newline>>,
        <<"        bar.set_color('firebrick')", Newline>>,
        <<"    else:", Newline>>,
        <<"        bar.set_color('forestgreen')", Newline>>,
        <<"ax7.axhline(y=0, color='black', linestyle='-', alpha=0.3)", Newline>>,
        <<"ax7.set_ylabel('% Change in TPS (1 ", Arrow, " 4 validators)')", Newline>>,
        <<"ax7.set_title('Impact of Increasing Validator Count from 1 to 4')", Newline>>,
        <<"ax7.grid(True, axis='y', alpha=0.2)", Newline>>,
        <<Newline>>,
        <<"# Add a main title with fixed position instead of using tight_layout", Newline>>,
        <<"fig.suptitle('UFO Performance Benchmark - Comprehensive Dashboard', fontsize=16, y=0.99)", Newline>>,
        <<Newline>>,
        <<"# Adjust the layout with specific padding to avoid warnings", Newline>>,
        <<"fig.subplots_adjust(top=0.95, bottom=0.05, left=0.1, right=0.95)", Newline>>,
        <<Newline>>,
        <<"# Save the figure", Newline>>,
        <<"plt.savefig(os.path.join(vis_dir, '", "comparative_dashboard.png", "'), dpi=300, bbox_inches='tight')", Newline>>,
        <<"plt.show()">>
    >>))

\* lines 398-398
NbInteractiveAnalysisHeading ==
    create_notebook_cell("markdown", StrList(<<
        <<"## Interactive Analysis", Newline, Newline, "Let's create some additional interactive visualizations.">>
    >>))

\* lines 401-424
NbEfficiencyComparisonCell ==
    create_notebook_cell("code", StrList(<<
        <<"# Performance Efficiency: TPS per CPU%", Newline>>,
        <<"df['tps_per_cpu'] = df['tps'] / df['cpu_usage']", Newline>>,
        <<Newline>>,
        <<"fig, ax = plt.subplots(figsize=(14, 8))", Newline>>,
        <<Newline>>,
        <<"for config in sorted(df['config_type'].unique()):", Newline>>,
        <<"    config_df = df[df['config_type'] == config]", Newline>>,
        <<"    ax.plot(config_df['block_time'], config_df['tps_per_cpu'], 'o-', ", Newline>>,
        <<"            linewidth=2, label=CONFIG_NAMES.get(config, config),", Newline>>,
        <<"            color=color_dict[config])", Newline>>,
        <<Newline>>,
        <<"ax.set_xscale('log')", Newline>>,
        <<"ax.set_xlabel('Block Time (ms)', fontsize=12)", Newline>>,
        <<"ax.set_ylabel('TPS per CPU % (Efficiency)', fontsize=12)", Newline>>,
        <<"ax.set_title('Processing Efficiency vs Block Time', fontsize=14)", Newline>>,
        <<"ax.grid(True, which=", Quote, "both", Quote, ", ls=", Quote, "-", Quote, ", alpha=0.2)", Newline>>,
        <<"ax.legend(fontsize=10)", Newline>>,
        <<"plt.tight_layout()", Newline>>,
        <<"plt.show()", Newline>>,
        <<Newline>>,
        <<"# Save the figure", Newline>>,
        <<"plt.savefig(os.path.join(vis_dir, '", "efficiency_comparison.png", "'), dpi=300, bbox_inches='tight')">>
    >>))

\* lines 427-447
NbMemoryVsTpsCell ==
    create_notebook_cell("code", StrList(<<
        <<"# Memory Utilization vs TPS", Newline>>,
        <<"plt.figure(figsize=(14, 8))", Newline>>,
        <<Newline>>,
        <<"for config in sorted(df['config_type'].unique()):", Newline>>,
        <<"    config_df = df[df['config_type'] == config]", Newline>>,
        <<"    plt.scatter(config_df['tps'], config_df['memory_usage'], ", Newline>>,
        <<"                label=CONFIG_NAMES.get(config, config),", Newline>>,
        <<"                color=color_dict[config], s=100, alpha=0.7)", Newline>>,
        <<Newline>>,
        <<"plt.xlabel('Transactions Per Second (TPS)', fontsize=12)", Newline>>,
        <<"plt.ylabel('Memory Usage (%)', fontsize=12)", Newline>>,
        <<"plt.title('Memory Usage vs TPS by Configuration', fontsize=14)", Newline>>,
        <<"plt.grid(True, alpha=0.2)", Newline>>,
        <<"plt.legend(fontsize=10)", Newline>>,
        <<"plt.tight_layout()", Newline>>,
        <<"plt.show()", Newline>>,
        <<Newline>>,
        <<"# Save the figure", Newline>>,
        <<"plt.savefig(os.path.join(vis_dir, '", "memory_vs_tps.png", "'), dpi=300, bbox_inches='tight')">>
    >>))

\* lines 450-466
NbBlocktimeHeatmapCell ==
    create_notebook_cell("code", StrList(<<
        <<"# Block Time Impact Heatmap", Newline>>,
        <<"# Pivot the data to create a heatmap", Newline>>,
        <<"heatmap_data = df.pivot_table(index='configuration', columns='block_time', values='tps')", Newline>>,
        <<Newline>>,
        <<"# Create the heatmap", Newline>>,
        <<"plt.figure(figsize=(14, 8))", Newline>>,
        <<"sns.heatmap(heatmap_data, annot=True, fmt='.1f', cmap='viridis', linewidths=.5)", Newline>>,
        <<"plt.title('TPS by Configuration and Block Time', fontsize=14)", Newline>>,
        <<"plt.ylabel('Configuration', fontsize=12)", Newline>>,
        <<"plt.xlabel('Block Time (ms)', fontsize=12)", Newline>>,
        <<"plt.tight_layout()", Newline>>,
        <<"plt.show()", Newline>>,
        <<Newline>>,
        <<"# Save the figure", Newline>>,
        <<"plt.savefig(os.path.join(vis_dir, '", "blocktime_heatmap.png", "'), dpi=300, bbox_inches='tight')">>
    >>))

\* lines 469-469
NbTpsVsBlocktimeHeading ==
    create_notebook_cell("markdown", StrList(<<
        <<"### TPS vs Block Time", Newline, Newline, "Visualization of transactions per second (TPS) at different block times.">>
    >>))

\* lines 470-484
NbTpsVsBlocktimeCell ==
    create_notebook_cell("code", StrList(<<
        <<"# Create TPS vs Block Time visualization", Newline>>,
        <<"plt.figure(figsize=(14, 8))", Newline>>,
        <<"plt.plot(df['block_time'], df['tps'], 'o-', linewidth=2, color='tab:blue')", Newline>>,
        <<"plt.xscale('log')", Newline>>,
        <<"plt.xlabel('Block Time (ms)', fontsize=12)", Newline>>,
        <<"plt.ylabel('Transactions Per Second (TPS)', fontsize=12)", Newline>>,
        <<"plt.title('TPS vs Block Time', fontsize=14)", Newline>>,
        <<"plt.grid(True, which=", Quote, "both", Quote, ", ls=", Quote, "-", Quote, ", alpha=0.2)", Newline>>,
        <<"plt.tight_layout()", Newline>>,
        <<Newline>>,
        <<"# Save the figure", Newline>>,
        <<"plt.savefig(os.path.join(vis_dir, '", "tps_vs_blocktime.png", "'), dpi=300, bbox_inches='tight')", Newline>>,
        <<"plt.show()">>
    >>))

\* lines 486-486
NbLatencyVsBlocktimeHeading ==
    create_notebook_cell("markdown", StrList(<<
        <<"### Latency vs Block Time", Newline, Newline, "Visualization of transaction latency at different block times.">>
    >>))

\* lines 487-501
NbLatencyVsBlocktimeCell ==
    create_notebook_cell("code", StrList(<<
        <<"# Create Latency vs Block Time visualization", Newline>>,
        <<"plt.figure(figsize=(14, 8))", Newline>>,
        <<"plt.plot(df['block_time'], df['latency_ms'], 'o-', linewidth=2, color='tab:orange')", Newline>>,
        <<"plt.xscale('log')", Newline>>,
        <<"plt.xlabel('Block Time (ms)', fontsize=12)", Newline>>,
        <<"plt.ylabel('Latency (ms)', fontsize=12)", Newline>>,
        <<"plt.title('Latency vs Block Time', fontsize=14)", Newline>>,
        <<"plt.grid(True, which=", Quote, "both", Quote, ", ls=", Quote, "-", Quote, ", alpha=0.2)", Newline>>,
        <<"plt.tight_layout()", Newline>>,
        <<Newline>>,
        <<"# Save the figure", Newline>>,
        <<"plt.savefig(os.path.join(vis_dir, '", "latency_vs_blocktime.png", "'), dpi=300, bbox_inches='tight')", Newline>>,
        <<"plt.show()">>
    >>))

\* lines 504-520
NbEfficiencyVsBlocktimeCell ==
    create_notebook_cell("code", StrList(<<
        <<"# Calculate performance efficiency (TPS per CPU%)", Newline>>,
        <<"df['tps_per_cpu'] = df['tps'] / df['cpu_usage']", Newline>>,
        <<Newline>>,
        <<"plt.figure(figsize=(14, 8))", Newline>>,
        <<"plt.plot(df['block_time'], df['tps_per_cpu'], 'o-', linewidth=2, color='tab:green')", Newline>>,
        <<"plt.xscale('log')", Newline>>,
        <<"plt.xlabel('Block Time (ms)', fontsize=12)", Newline>>,
        <<"plt.ylabel('TPS per CPU % (Efficiency)', fontsize=12)", Newline>>,
        <<"plt.title('Processing Efficiency vs Block Time', fontsize=14)", Newline>>,
        <<"plt.grid(True, which=", Quote, "both", Quote, ", ls=", Quote, "-", Quote, ", alpha=0.2)", Newline>>,
        <<"plt.tight_layout()", Newline>>,
        <<"plt.show()", Newline>>,
        <<Newline>>,
        <<"# Save the figure", Newline>>,
        <<"plt.savefig(os.path.join(vis_dir, '", "efficiency_vs_blocktime.png", "'), dpi=300, bbox_inches='tight')">>
    >>))

\* lines 524-524
NbReportHeading ==
    create_notebook_cell("markdown", StrList(<<
        <<"## Benchmark Report", Newline, Newline, "Below is the full benchmark report.">>
    >>))

\* lines 530-530
NbReportCell(report_content) ==
    create_notebook_cell("markdown", StrList(<<
        report_content
    >>))

\* lines 532-532
NbReportErrorCell(e) ==
    create_notebook_cell("markdown", StrList(<<
        <<"Error loading benchmark report: ">> \o e
    >>))

\* lines 535-547
NbConclusionCell ==
    create_notebook_cell("markdown", StrList(<<
        <<"## Conclusion", Newline, Newline>>,
        <<"This notebook provides an analysis of the UFO benchmark results, comparing performance across different configurations ">>,
        <<"and block times. The visualizations show how transaction throughput, latency, and resource usage are affected by ">>,
        <<"block time settings and validator counts.", Newline, Newline>>,
        <<"Key metrics to consider:", Newline, Newline>>,
        <<"* **TPS (Transactions Per Second)**: Higher is better, indicates throughput", Newline>>,
        <<"* **Latency**: Lower is better, indicates responsiveness", Newline>>,
        <<"* **Resource Usage**: Lower CPU and memory usage for the same TPS indicates better efficiency", Newline>>,
        <<"* **TPS per CPU %**: Higher is better, indicates better performance efficiency", Newline>>,
        <<Newline>>,
        <<"All visualizations are saved to the ", Backtick, "notebook_visualizations", Backtick, " directory for reference.">>
    >>))

----------------------------------------------------------------------------
(* generate_notebook and main of the notebook tool *)

\* args.run_name: not given, or a str
NoName == [given |-> FALSE, s |-> <<>>]
RunNames ==
    {NoName} \cup {[given |-> TRUE, s |-> s] :
                      s \in {<<>>, <<"Run ", Quote, "A", Quote, Backslash, "n", Newline, Arrow>>}}

\* args.report: not given; or a path that does not exist; or a file that
\* cannot be read, text being the message of the exception; or a file and its text
NoReport == [path |-> FALSE, exists |-> FALSE, readable |-> FALSE, text |-> <<>>]
Reports ==
    {NoReport,
     [path |-> TRUE, exists |-> FALSE, readable |-> FALSE, text |-> <<>>],
     [path |-> TRUE, exists |-> TRUE, readable |-> FALSE,
      text |-> <<"[Errno 13] Permission denied: 'report.md'">>]}
    \cup {[path |-> TRUE, exists |-> TRUE, readable |-> TRUE, text |-> s] :
             s \in {<<>>, <<"# Report", Newline, "a ", Quote, "b", Quote, " c:", Backslash, "n">>}}

NotLoaded == [read |-> FALSE, ok |-> FALSE, v |-> PyNone]

NotebookFile == "benchmark_analysis.ipynb"

\* line 114 for csv_file 'results.csv' and output_dir 'out'
csv_rel_path == <<"../results.csv">>

\* line 58
has_config_columns(d) == {"configuration", "validators"} \subseteq d.columns

\* line 61: run_name or "Benchmark Analysis"
display_run_name(name) ==
    IF name.given /\ name.s # <<>> THEN name.s ELSE <<"Benchmark Analysis">>

\* lines 143-466
ComparativeCells ==
    <<NbTpsComparisonHeading, NbTpsComparisonCell,
      NbLatencyComparisonHeading, NbLatencyComparisonCell,
      NbCpuComparisonHeading, NbCpuComparisonCell,
      NbMemoryComparisonHeading, NbMemoryComparisonCell,
      NbValidatorImpactHeading, NbValidatorImpactCell,
      NbDashboardHeading, NbDashboardCell,
      NbInteractiveAnalysisHeading, NbEfficiencyComparisonCell,
      NbMemoryVsTpsCell, NbBlocktimeHeatmapCell>>

\* lines 467-520
SingleCells ==
    <<NbTpsVsBlocktimeHeading, NbTpsVsBlocktimeCell,
      NbLatencyVsBlocktimeHeading, NbLatencyVsBlocktimeCell,
      NbEfficiencyVsBlocktimeCell>>

\* mutant: both blocks of plotting cells are emitted
AnalysisCells_BothBlocks(d, name) ==
    <<NbTitleCell(display_run_name(name)), NbImportsCell, NbBenchmarkDataHeading,
      NbLoadDataCell(csv_rel_path), NbDescribeCell>>
    \o (IF has_config_columns(d) THEN <<NbConfigTypeCell>> ELSE <<>>)
    \o <<NbVisualizationsHeading>>
    \o (IF has_config_columns(d) THEN ComparativeCells \o SingleCells ELSE SingleCells)

\* mutant: the validator-impact cells are left out when the table has no
\* row for validator count 1 or none for 4
AnalysisCells_ByRows(d, name) ==
    <<NbTitleCell(display_run_name(name)), NbImportsCell, NbBenchmarkDataHeading,
      NbLoadDataCell(csv_rel_path), NbDescribeCell>>
    \o (IF has_config_columns(d) THEN <<NbConfigTypeCell>> ELSE <<>>)
    \o <<NbVisualizationsHeading>>
    \o (IF has_config_columns(d)
        THEN IF \A v \in {1, 4} : \E i \in 1..Len(d.rows) : d.rows[i]["validators"] = v
             THEN ComparativeCells
             ELSE SelectSeq(ComparativeCells,
                            LAMBDA c : c \notin {NbValidatorImpactHeading,
                                                 NbValidatorImpactCell})
        ELSE SingleCells)

\* lines 64-520: the cells up to the report
AnalysisCells(d, name) ==
    <<NbTitleCell(display_run_name(name)), NbImportsCell, NbBenchmarkDataHeading,
      NbLoadDataCell(csv_rel_path), NbDescribeCell>>
    \o (IF has_config_columns(d) THEN <<NbConfigTypeCell>> ELSE <<>>)
    \o <<NbVisualizationsHeading>>
    \o (IF has_config_columns(d) THEN ComparativeCells ELSE SingleCells)

\* lines 522-532
ReportCells(r) ==
    IF r.path /\ r.exists
    THEN <<NbReportHeading,
           IF r.readable THEN NbReportCell(r.text)
           ELSE NbReportErrorCell(r.text)>>
    ELSE <<>>

\* lines 550-573
Notebook(cs) ==
    PyDict(<<
        <<(<<"cells">>), PyList(cs)>>,
        <<(<<"metadata">>), PyDict(<<
            <<(<<"kernelspec">>), PyDict(<<
                <<(<<"display_name">>), PyStr(<<"Python 3">>)>>,
                <<(<<"language">>), PyStr(<<"python">>)>>,
                <<(<<"name">>), PyStr(<<"python3">>)>> >>)>>,
            <<(<<"language_info">>), PyDict(<<
                <<(<<"codemirror_mode">>), PyDict(<<
                    <<(<<"name">>), PyStr(<<"ipython">>)>>,
                    <<(<<"version">>), PyInt(3)>> >>)>>,
                <<(<<"file_extension">>), PyStr(<<".py">>)>>,
                <<(<<"mimetype">>), PyStr(<<"text/x-python">>)>>,
                <<(<<"name">>), PyStr(<<"python">>)>>,
                <<(<<"nbconvert_exporter">>), PyStr(<<"python">>)>>,
                <<(<<"pygments_lexer">>), PyStr(<<"ipython3">>)>>,
                <<(<<"version">>), PyStr(<<"3.8.10">>)>> >>)>> >>)>>,
        <<(<<"nbformat">>), PyInt(4)>>,
        <<(<<"nbformat_minor">>), PyInt(4)>> >>)

\* main, lines 585-589: read_data (lines 40-43) is pd.read_csv alone
NbReadData ==
    /\ pc = "nb_start"
    /\ IF csv.kind = "missing"
       THEN Raise("FileNotFoundError") /\ UNCHANGED df
       ELSE IF csv.kind = "unparseable"
       THEN Raise("ParserError") /\ UNCHANGED df
       ELSE /\ df' = [columns |-> csv.columns, rows |-> csv.rows]
            /\ pc' = "nb_makedirs"
            /\ UNCHANGED <<error, exit_code>>
    /\ UNCHANGED <<parvars, figvars, nbvars, csv, comparative, sdf, configs, out_exists, files,
                   written, stdout, rerun, prev_files>>

\* generate_notebook, lines 47-48
NbMakedirs ==
    /\ pc = "nb_makedirs"
    /\ out_exists' = TRUE
    /\ pc' = "nb_make_vis_dir"
    /\ UNCHANGED <<parvars, figvars, nbvars, csv, comparative, df, sdf, configs, files, written,
                   stdout, error, exit_code, rerun, prev_files>>

\* lines 50-52
NbMakeVisDir ==
    /\ pc = "nb_make_vis_dir"
    /\ vis_exists' = TRUE
    /\ pc' = "nb_cells"
    /\ UNCHANGED <<parvars, figvars, vis_files, report, run_name, cells, loaded, prev_cells, csv, comparative, df, sdf,
                   configs, out_exists, files, written, stdout, error,
                   exit_code, rerun, prev_files>>

\* lines 57-520
NbBuildCells ==
    /\ pc = "nb_cells"
    /\ cells' = AnalysisCells(df, run_name)
    /\ pc' = "nb_report"
    /\ UNCHANGED <<parvars, figvars, vis_files, report, run_name, vis_exists, loaded, prev_cells, csv, comparative, df,
                   sdf, configs, out_exists, files, written, stdout, error,
                   exit_code, rerun, prev_files>>

\* lines 522-532
NbAddReport ==
    /\ pc = "nb_report"
    /\ cells' = cells \o ReportCells(report)
    /\ pc' = "nb_conclusion"
    /\ UNCHANGED <<parvars, figvars, vis_files, report, run_name, vis_exists, loaded, prev_cells, csv, comparative, df,
                   sdf, configs, out_exists, files, written, stdout, error,
                   exit_code, rerun, prev_files>>

\* lines 534-547
NbAddConclusion ==
    /\ pc = "nb_conclusion"
    /\ cells' = Append(cells, NbConclusionCell)
    /\ pc' = "nb_write"
    /\ UNCHANGED <<parvars, figvars, vis_files, report, run_name, vis_exists, loaded, prev_cells, csv, comparative, df,
                   sdf, configs, out_exists, files, written, stdout, error,
                   exit_code, rerun, prev_files>>

\* mutant: the first plotting cell is run as well, saving its image
NbWrite_RunsCell ==
    /\ pc = "nb_write"
    /\ files' = [n \in DOMAIN files \cup {NotebookFile} |->
                    IF n = NotebookFile THEN DumpValue(Notebook(cells))
                    ELSE files[n]]
    /\ vis_files' = <<"tps_vs_blocktime.png">>
    /\ written' = Append(written, NotebookFile)
    /\ pc' = "nb_return"
    /\ UNCHANGED <<parvars, figvars, report, run_name, vis_exists, cells, loaded, prev_cells,
                   csv, comparative, df, sdf, configs, out_exists,
                   stdout, error, exit_code, rerun, prev_files>>

\* lines 549-577: open(notebook_path, 'w'), json.dump(notebook, f, indent=2)
NbWrite ==
    /\ pc = "nb_write"
    /\ files' = [n \in DOMAIN files \cup {NotebookFile} |->
                    IF n = NotebookFile THEN DumpValue(Notebook(cells))
                    ELSE files[n]]
    /\ written' = Append(written, NotebookFile)
    /\ pc' = "nb_return"
    /\ UNCHANGED <<parvars, figvars, nbvars, csv, comparative, df, sdf, configs, out_exists,
                   stdout, error, exit_code, rerun, prev_files>>

\* lines 579-582 and 598-600: the prints, the path returned, exit status 0
NbReturn ==
    /\ pc = "nb_return"
    /\ stdout' = stdout \o <<"Jupyter notebook created at: out/benchmark_analysis.ipynb",
                             "Visualizations will be saved to: out/notebook_visualizations when the notebook is run",
                             "Notebook created successfully. To view it, run:",
                             "jupyter notebook out/benchmark_analysis.ipynb">>
    /\ pc' = "exited"
    /\ exit_code' = 0
    /\ UNCHANGED <<parvars, figvars, nbvars, csv, comparative, df, sdf, configs, out_exists,
                   files, written, error, rerun, prev_files>>

\* the emitted file is opened again and read with json.load
NbReopen ==
    /\ pc = "exited"
    /\ exit_code = 0
    /\ ~loaded.read
    /\ LET r == JsonLoad(files[NotebookFile])
       IN  loaded' = [read |-> TRUE, ok |-> r.ok, v |-> r.v]
    /\ UNCHANGED <<parvars, figvars, vis_files, report, run_name, vis_exists, cells, prev_cells, csv, comparative, pc, df,
                   sdf, configs, out_exists, files, written, stdout, error,
                   exit_code, rerun, prev_files>>

\* the notebook tool is started again on the same arguments; the disk is kept
NbRerun ==
    /\ pc = "exited"
    /\ ~rerun
    /\ rerun' = TRUE
    /\ prev_files' = files
    /\ prev_cells' = cells
    /\ pc' = "nb_start"
    /\ df' = NoDf
    /\ cells' = <<>>
    /\ loaded' = NotLoaded
    /\ written' = <<>>
    /\ stdout' = <<>>
    /\ error' = "none"
    /\ exit_code' = -1
    /\ UNCHANGED <<parvars, figvars, vis_files, report, run_name, vis_exists, csv, comparative, sdf, configs,
                   out_exists, files>>

----------------------------------------------------------------------------
(* The Chart Renderer's specification *)

CsvFiles ==
    {[kind |-> k, columns |-> {}, rows |-> <<>>] : k \in {"missing", "unparseable"}}
    \cup UNION {{[kind |-> "table", columns |-> h, rows |-> t] :
                    t \in TablesOf(h, MaxRows)} : h \in Headers}

\* one invocation, of output directory 'out', and nothing else going on
OneInvocation ==
    /\ output_dir = "out"
    /\ self = 1
    /\ other = <<>>
    /\ disk = <<>>
    /\ start = <<>>
    /\ solo = <<>>
    /\ phase = "alone"
    /\ mixed = FALSE

Init ==
    /\ csv \in CsvFiles
    /\ comparative \in BOOLEAN
    /\ pc = "start"
    /\ df = NoDf
    /\ sdf = NoDf
    /\ configs = <<>>
    /\ out_exists = FALSE
    /\ files = <<>>
    /\ written = <<>>
    /\ stdout = <<>>
    /\ error = "none"
    /\ exit_code = -1
    /\ rerun = FALSE
    /\ prev_files = <<>>
    /\ report = NoReport
    /\ run_name = NoName
    /\ vis_exists = FALSE
    /\ cells = <<>>
    /\ loaded = NotLoaded
    /\ prev_cells = <<>>
    /\ vis_files = <<>>
    /\ figures = 0
    /\ in_chart = FALSE
    /\ OneInvocation

Next ==
    \/ ReadData
    \/ MainMakedirs
    \/ SinglePrepare
    \/ TpsVsBlocktime
    \/ LatencyVsBlocktime
    \/ CpuVsBlocktime
    \/ MemoryVsBlocktime
    \/ BlocksVsBlocktime
    \/ TxPerBlockVsBlocktime
    \/ CombinedMetricsChart
    \/ PerformanceDashboardChart
    \/ SingleReturn
    \/ ComparativePrepare
    \/ TpsComparison
    \/ LatencyComparison
    \/ CpuComparison
    \/ MemoryComparison
    \/ ValidatorImpactChart
    \/ ComparativeDashboardChart
    \/ ComparativeReturn
    \/ Rerun

Spec == Init /\ [][Next]_vars

----------------------------------------------------------------------------
(* Comparative mode over every ConfigKey: the ten of the style tables and
   keys they do not hold *)

KeyMaxRows == 2

KeyRows ==
    [configuration : {KeyConfigurations[i] : i \in DOMAIN KeyConfigurations},
     validators : {KeyValidatorCounts[i] : i \in DOMAIN KeyValidatorCounts},
     block_time : {100},
     tps : {500},
     latency_ms : {5},
     cpu_usage : {50},
     memory_usage : {30},
     blocks_produced : {12},
     avg_tx_per_block : {40}]

KeyCsvFiles ==
    {[kind |-> "table", columns |-> AllColumns, rows |-> t] :
        t \in UNION {[1..k -> KeyRows] : k \in 0..KeyMaxRows}}

InitKeys ==
    /\ csv \in KeyCsvFiles
    /\ comparative = TRUE
    /\ pc = "start"
    /\ df = NoDf
    /\ sdf = NoDf
    /\ configs = <<>>
    /\ out_exists = FALSE
    /\ files = <<>>
    /\ written = <<>>
    /\ stdout = <<>>
    /\ error = "none"
    /\ exit_code = -1
    /\ rerun = FALSE
    /\ prev_files = <<>>
    /\ report = NoReport
    /\ run_name = NoName
    /\ vis_exists = FALSE
    /\ cells = <<>>
    /\ loaded = NotLoaded
    /\ prev_cells = <<>>
    /\ vis_files = <<>>
    /\ figures = 0
    /\ in_chart = FALSE
    /\ OneInvocation

NextKeys ==
    \/ ReadData
    \/ MainMakedirs
    \/ ComparativePrepare
    \/ TpsComparison
    \/ LatencyComparison
    \/ CpuComparison
    \/ MemoryComparison
    \/ ValidatorImpactChart
    \/ ComparativeDashboardChart
    \/ ComparativeReturn

SpecKeys == InitKeys /\ [][NextKeys]_vars

----------------------------------------------------------------------------
(* The Notebook Emitter's specification *)

NbMaxRows == 1

\* the notebook tool reads the header of the table only
NbHeaders == {AllColumns, RequiredColumns, AllColumns \ {"validators"}}

\* and nothing of its rows: two measurements that differ in every field
\* it could look at, one with validator count 1 and one with 4
NbRows ==
    {r \in FullRows :
        \/ /\ r.configuration = "osmosis-comet" /\ r.validators = 1
           /\ r.block_time = 100 /\ r.tps = 500
        \/ /\ r.configuration = "fauxmosis-ufo" /\ r.validators = 4
           /\ r.block_time = 11 /\ r.tps = 420}

NbTablesOf(columns, n) ==
    UNION {[1..k -> {Restrict(r, columns) : r \in NbRows}] : k \in 0..n}

NbCsvFiles ==
    {[kind |-> k, columns |-> {}, rows |-> <<>>] : k \in {"missing", "unparseable"}}
    \cup UNION {{[kind |-> "table", columns |-> h, rows |-> t] :
                    t \in NbTablesOf(h, NbMaxRows)} : h \in NbHeaders}

InitNB ==
    /\ csv \in NbCsvFiles
    /\ report \in Reports
    /\ run_name \in RunNames
    /\ comparative = FALSE
    /\ pc = "nb_start"
    /\ df = NoDf
    /\ sdf = NoDf
    /\ configs = <<>>
    /\ out_exists = FALSE
    /\ vis_exists = FALSE
    /\ files = <<>>
    /\ written = <<>>
    /\ stdout = <<>>
    /\ error = "none"
    /\ exit_code = -1
    /\ rerun = FALSE
    /\ prev_files = <<>>
    /\ cells = <<>>
    /\ loaded = NotLoaded
    /\ prev_cells = <<>>
    /\ vis_files = <<>>
    /\ figures = 0
    /\ in_chart = FALSE
    /\ OneInvocation

NextNB ==
    \/ NbReadData
    \/ NbMakedirs
    \/ NbMakeVisDir
    \/ NbBuildCells
    \/ NbAddReport
    \/ NbAddConclusion
    \/ NbWrite
    \/ NbReturn
    \/ NbReopen
    \/ NbRerun

SpecNB == InitNB /\ [][NextNB]_vars

----------------------------------------------------------------------------
(* Two invocations at once, each of either tool, the operating system
   running one of them at a time and switching between them at any step *)

\* the output directories given on the command lines, and one nobody names
Dirs == {"out_a", "out_b", "out_c"}

\* mutant: the file name is joined to nothing, the write lands in one place
JoinDir_Ignored(dir) == "out_a"

\* os.path.join(output_dir, name): the directory a write lands in
JoinDir(dir) == dir

\* a directory nothing has been written to
Pristine == [out_exists |-> FALSE, files |-> <<>>, vis_exists |-> FALSE,
             vis_files |-> <<>>]

\* what the running invocation sees at its output directory
View == [out_exists |-> out_exists, files |-> files, vis_exists |-> vis_exists,
         vis_files |-> vis_files]

\* what directory d holds now
Content(d) == IF d = JoinDir(output_dir) THEN View ELSE disk[d]

\* the running invocation's own state: arguments, locals, position, output
Local ==
    [self |-> self, output_dir |-> output_dir, csv |-> csv,
     comparative |-> comparative, pc |-> pc, df |-> df, sdf |-> sdf,
     configs |-> configs, written |-> written, stdout |-> stdout,
     error |-> error, exit_code |-> exit_code, rerun |-> rerun,
     prev_files |-> prev_files, report |-> report, run_name |-> run_name,
     cells |-> cells, loaded |-> loaded, prev_cells |-> prev_cells,
     figures |-> figures, in_chart |-> in_chart]

\* the files two invocations may be given: none, a table of one row with
\* every column, the same without its latency column
ParCsvFiles ==
    {[kind |-> "missing", columns |-> {}, rows |-> <<>>]}
    \cup {[kind |-> "table", columns |-> h, rows |-> <<Restrict(r, h)>>] :
             h \in {AllColumns, AllColumns \ {"latency_ms"}},
             r \in {x \in NbRows : x.validators = 1}}

ParReports ==
    {NoReport,
     [path |-> TRUE, exists |-> TRUE, readable |-> TRUE,
      text |-> <<"# Report", Newline>>]}

\* the command lines: visualize_benchmark.py csv_file [--comparative], or
\* generate_benchmark_notebook.py csv_file [--report report]
CommandLines ==
    {[pc |-> "start", csv |-> f, comparative |-> c, report |-> NoReport,
      run_name |-> NoName] : f \in ParCsvFiles, c \in BOOLEAN}
    \cup {[pc |-> "nb_start", csv |-> f, comparative |-> FALSE, report |-> r,
           run_name |-> NoName] : f \in ParCsvFiles, r \in ParReports}

\* invocation i as the shell launches it
Launched(i, dir, cmd) ==
    [self |-> i, output_dir |-> dir, csv |-> cmd.csv,
     comparative |-> cmd.comparative, pc |-> cmd.pc, df |-> NoDf, sdf |-> NoDf,
     configs |-> <<>>, written |-> <<>>, stdout |-> <<>>, error |-> "none",
     exit_code |-> -1, rerun |-> FALSE, prev_files |-> <<>>,
     report |-> cmd.report, run_name |-> cmd.run_name, cells |-> <<>>,
     loaded |-> NotLoaded, prev_cells |-> <<>>, figures |-> 0,
     in_chart |-> FALSE]

\* invocation c gets the processor
Resume(c) ==
    /\ self' = c.self
    /\ output_dir' = c.output_dir
    /\ csv' = c.csv
    /\ comparative' = c.comparative
    /\ pc' = c.pc
    /\ df' = c.df
    /\ sdf' = c.sdf
    /\ configs' = c.configs
    /\ written' = c.written
    /\ stdout' = c.stdout
    /\ error' = c.error
    /\ exit_code' = c.exit_code
    /\ rerun' = c.rerun
    /\ prev_files' = c.prev_files
    /\ report' = c.report
    /\ run_name' = c.run_name
    /\ cells' = c.cells
    /\ loaded' = c.loaded
    /\ prev_cells' = c.prev_cells
    /\ figures' = c.figures
    /\ in_chart' = c.in_chart

\* and sees directory content v at its output directory
Appear(v) ==
    /\ out_exists' = v.out_exists
    /\ files' = v.files
    /\ vis_exists' = v.vis_exists
    /\ vis_files' = v.vis_files

\* an invocation that has begun and not ended
Underway(c) == c.pc \notin {"start", "nb_start", "exited"}

\* the first invocation has run alone to its end: what its directory holds
\* is what it leaves when alone; the second starts on untouched directories
AloneNext ==
    /\ phase = "alone"
    /\ pc = "exited"
    /\ self = 1
    /\ solo' = [solo EXCEPT ![1] = View]
    /\ Resume(start[2])
    /\ Appear(Pristine)
    /\ UNCHANGED <<other, disk, start, phase, mixed>>

\* so has the second: both are launched again, on untouched directories,
\* this time at once
AloneDone ==
    /\ phase = "alone"
    /\ pc = "exited"
    /\ self = 2
    /\ solo' = [solo EXCEPT ![2] = View]
    /\ phase' = "together"
    /\ Resume(start[1])
    /\ Appear(Pristine)
    /\ other' = start[2]
    /\ disk' = [d \in Dirs |-> Pristine]
    /\ UNCHANGED <<start, mixed>>

\* the operating system takes the processor from the running invocation and
\* gives it to the other, which has not ended; the directories stay as they are
Switch ==
    /\ phase = "together"
    /\ other.pc # "exited"
    /\ LET now == [disk EXCEPT ![JoinDir(output_dir)] = View]
       IN  /\ disk' = now
           /\ Appear(now[JoinDir(other.output_dir)])
    /\ other' = Local
    /\ Resume(other)
    /\ mixed' = (mixed \/ (Underway(Local) /\ Underway(other)))
    /\ UNCHANGED <<solo, phase, start>>

InitPar ==
    /\ \E a, b \in CommandLines, d \in {"out_a", "out_b"} :
          start = <<Launched(1, "out_a", a), Launched(2, d, b)>>
    /\ self = 1
    /\ output_dir = start[1].output_dir
    /\ csv = start[1].csv
    /\ comparative = start[1].comparative
    /\ pc = start[1].pc
    /\ report = start[1].report
    /\ run_name = start[1].run_name
    /\ df = NoDf
    /\ sdf = NoDf
    /\ configs = <<>>
    /\ out_exists = FALSE
    /\ vis_exists = FALSE
    /\ files = <<>>
    /\ written = <<>>
    /\ stdout = <<>>
    /\ error = "none"
    /\ exit_code = -1
    /\ rerun = FALSE
    /\ prev_files = <<>>
    /\ cells = <<>>
    /\ loaded = NotLoaded
    /\ prev_cells = <<>>
    /\ vis_files = <<>>
    /\ figures = 0
    /\ in_chart = FALSE
    /\ other = start[2]
    /\ disk = [d \in Dirs |-> Pristine]
    /\ solo = <<Pristine, Pristine>>
    /\ phase = "alone"
    /\ mixed = FALSE

NextPar ==
    \/ ReadData
    \/ MainMakedirs
    \/ SinglePrepare
    \/ TpsVsBlocktime
    \/ LatencyVsBlocktime
    \/ CpuVsBlocktime
    \/ MemoryVsBlocktime
    \/ BlocksVsBlocktime
    \/ TxPerBlockVsBlocktime
    \/ CombinedMetricsChart
    \/ PerformanceDashboardChart
    \/ SingleReturn
    \/ ComparativePrepare
    \/ TpsComparison
    \/ LatencyComparison
    \/ CpuComparison
    \/ MemoryComparison
    \/ ValidatorImpactChart
    \/ ComparativeDashboardChart
    \/ ComparativeReturn
    \/ NbReadData
    \/ NbMakedirs
    \/ NbMakeVisDir
    \/ NbBuildCells
    \/ NbAddReport
    \/ NbAddConclusion
    \/ NbWrite
    \/ NbReturn
    \/ AloneNext
    \/ AloneDone
    \/ Switch

SpecPar == InitPar /\ [][NextPar]_vars

----------------------------------------------------------------------------
(* Properties of the Chart Renderer *)

SingleCatalog ==
    {"tps_vs_blocktime.png", "latency_vs_blocktime.png", "cpu_vs_blocktime.png",
     "memory_vs_blocktime.png", "blocks_vs_blocktime.png",
     "tx_per_block_vs_blocktime.png", "combined_metrics.png",
     "performance_dashboard.png"}

ComparativeCatalog ==
    {"tps_comparison.png", "latency_comparison.png", "cpu_comparison.png",
     "memory_comparison.png", "validator_impact.png", "comparative_dashboard.png"}

Range(s) == {s[i] : i \in DOMAIN s}

IsTable == csv.kind = "table"

\* C1: a successful single-configuration run on a table with the seven
\* required columns has created the output directory and saved exactly the
\* 8 single-configuration images, each once, and no other file; no image is
\* saved while the directory does not exist.
C1_SingleWritesEightFiles ==
    /\ (written # <<>>) => out_exists
    /\ (/\ pc = "exited" /\ exit_code = 0 /\ ~comparative
        /\ IsTable /\ RequiredColumns \subseteq csv.columns)
       => /\ out_exists
          /\ Len(written) = 8
          /\ Range(written) = SingleCatalog
          /\ DOMAIN files = SingleCatalog
          /\ Cardinality(DOMAIN files) = 8

C1_Witness ==
    /\ pc = "exited" /\ exit_code = 0 /\ ~comparative /\ ~rerun
    /\ Len(csv.rows) = 2
    /\ csv.columns = RequiredColumns
    /\ DOMAIN files = SingleCatalog

\* C2: a successful comparative run on a table with the configuration,
\* validators and metric columns has saved exactly the 6 comparative images,
\* each once, and no other file.
C2_ComparativeWritesSixFiles ==
    (/\ pc = "exited" /\ exit_code = 0 /\ comparative
     /\ IsTable /\ AllColumns \subseteq csv.columns)
    => /\ out_exists
       /\ Len(written) = 6
       /\ Range(written) = ComparativeCatalog
       /\ DOMAIN files = ComparativeCatalog
       /\ Cardinality(DOMAIN files) = 6

C2_Witness ==
    /\ pc = "exited" /\ exit_code = 0 /\ comparative /\ ~rerun
    /\ Len(csv.rows) = 2
    /\ DOMAIN files = ComparativeCatalog

BadInput == csv.kind \in {"missing", "unparseable"} \/ csv.rows = <<>>

\* C3: with a missing, unparseable or zero-row input the visualize tool never
\* creates the output directory nor writes a file, and ends with status 1
\* after printing an error; every other run in which rendering raises no
\* error ends with status 0 and the mode's images in the output directory.
C3_VisualizeExitStatus ==
    /\ BadInput => /\ ~out_exists
                   /\ files = <<>>
                   /\ written = <<>>
                   /\ pc = "exited" => (exit_code = 1 /\ Len(stdout) = 1)
    /\ (~BadInput /\ pc = "exited" /\ error = "none")
       => /\ exit_code = 0
          /\ out_exists
          /\ DOMAIN files = IF comparative THEN ComparativeCatalog ELSE SingleCatalog

C3_Witness ==
    /\ pc = "exited" /\ exit_code = 1
    /\ IsTable /\ csv.rows = <<>> /\ csv.columns = AllColumns
    /\ stdout = <<"Error: CSV file is empty">>
    /\ ~out_exists

\* the bucket of a representative block time: within 10% of it, ends included
InBucket(bt, B) == 9 * B <= 10 * bt /\ 10 * bt <= 11 * B

ValidatorSlotsOk(bars, rows, B, v) ==
    LET names == {rows[k]["configuration"] : k \in DOMAIN rows}
    IN  /\ bars.kind = "bar"
        /\ Len(bars.y) = Cardinality(names)
        /\ Len(bars.ticks) = Cardinality(names)
        /\ \A c \in names :
              \E i \in DOMAIN bars.y :
                 /\ bars.ticks[i] = Capitalize(c)
                 /\ \A j \in DOMAIN bars.y : bars.ticks[j] = Capitalize(c) => j = i
                 /\ LET matching == {k \in DOMAIN rows :
                                        /\ rows[k]["configuration"] = c
                                        /\ rows[k]["validators"] = v
                                        /\ InBucket(rows[k]["block_time"], B)}
                    IN  IF matching = {} THEN bars.y[i] = 0
                        ELSE \E k \in matching : bars.y[i] = rows[k]["tps"]

\* C5: in the saved validator-impact chart each of the three subplots (block
\* times 1000, 100, 10) holds, for validator count 1 and for 4, one bar per
\* distinct configuration name of the table: the TPS of a row of that
\* configuration and validator count in the bucket, or 0 when there is none;
\* the dashboard's validator panel (block time 100) is built the same way.
C5_ValidatorImpactSlots ==
    /\ "validator_impact.png" \in DOMAIN files =>
          LET chart == files["validator_impact.png"]
          IN  /\ Len(chart) = 6
              /\ \A b \in 1..3 :
                    /\ ValidatorSlotsOk(chart[2 * b - 1], csv.rows,
                                        <<1000, 100, 10>>[b], 1)
                    /\ ValidatorSlotsOk(chart[2 * b], csv.rows,
                                        <<1000, 100, 10>>[b], 4)
    /\ "comparative_dashboard.png" \in DOMAIN files =>
          LET chart == files["comparative_dashboard.png"]
          IN  /\ ValidatorSlotsOk(chart[Len(chart) - 1], csv.rows, 100, 1)
              /\ ValidatorSlotsOk(chart[Len(chart)], csv.rows, 100, 4)

\* the spec's example: osmosis-comet at block time 100, 500 TPS with one
\* validator and 420 with four; the 1000 ms subplot keeps its two zero bars
C5_Witness ==
    /\ csv.rows = <<[r \in AllColumns |->
                        CASE r = "configuration" -> "osmosis-comet"
                          [] r = "validators" -> 1
                          [] r = "block_time" -> 100
                          [] r = "tps" -> 500
                          [] r = "latency_ms" -> 5
                          [] r = "cpu_usage" -> 50
                          [] r = "memory_usage" -> 30
                          [] r = "blocks_produced" -> 12
                          [] r = "avg_tx_per_block" -> 40],
                    [r \in AllColumns |->
                        CASE r = "configuration" -> "osmosis-comet"
                          [] r = "validators" -> 4
                          [] r = "block_time" -> 100
                          [] r = "tps" -> 420
                          [] r = "latency_ms" -> 5
                          [] r = "cpu_usage" -> 50
                          [] r = "memory_usage" -> 30
                          [] r = "blocks_produced" -> 12
                          [] r = "avg_tx_per_block" -> 40]>>
    /\ "validator_impact.png" \in DOMAIN files
    /\ files["validator_impact.png"][1].y = <<0>>
    /\ files["validator_impact.png"][2].y = <<0>>
    /\ files["validator_impact.png"][3].y = <<500>>
    /\ files["validator_impact.png"][4].y = <<420>>

NonDecreasing(x) == \A i \in 1..(Len(x) - 1) : x[i] <= x[i + 1]

\* C6: in every saved chart of either mode, the block_time values of every
\* line series are in non-decreasing order, whatever the order of the rows
\* in the input file.
C6_SeriesSortedByBlockTime ==
    \A n \in DOMAIN files :
        \A i \in DOMAIN files[n] :
            files[n][i].kind = "line" => NonDecreasing(files[n][i].x)

\* two rows of one configuration given in descending block_time order
C6_Witness ==
    /\ comparative
    /\ Len(csv.rows) = 2
    /\ csv.columns = AllColumns
    /\ csv.rows[1]["block_time"] = 100
    /\ csv.rows[2]["block_time"] = 11
    /\ "tps_comparison.png" \in DOMAIN files
    /\ Len(files["tps_comparison.png"]) = 1
    /\ files["tps_comparison.png"][1].x = <<11, 100>>

\* C7: when the tool has been run again on the same input, mode and output
\* directory, the directory holds the same file names with the same content
\* as after the previous run.
C7_RerunIdempotent ==
    (pc = "exited" /\ rerun) => files = prev_files

C7_Witness ==
    /\ pc = "exited" /\ rerun /\ exit_code = 0
    /\ Len(csv.rows) = 2
    /\ DOMAIN files = ComparativeCatalog
    /\ Len(written) = 6

\* C8: a comparative run on a table without the validators column or without
\* the configuration column ends with a KeyError raised while the ConfigKey
\* column is derived: the column is not added, and throughout the run no
\* image is saved and the output directory holds no file.
C8_MissingKeyColumnFailsBeforeAnyFile ==
    (comparative /\ IsTable /\ csv.rows # <<>>
     /\ ~ (ConfigColumns \subseteq csv.columns))
    => /\ files = <<>>
       /\ written = <<>>
       /\ "config_type" \notin df.columns
       /\ pc = "exited" => (error = "KeyError" /\ exit_code = 1)
       /\ pc \in {"start", "main_makedirs", "comparative_prepare", "exited"}

C8_Witness ==
    /\ comparative /\ IsTable /\ Len(csv.rows) = 2
    /\ csv.columns = AllColumns \ {"validators"}
    /\ pc = "exited" /\ error = "KeyError"
    /\ out_exists

----------------------------------------------------------------------------
(* Properties of the Notebook Emitter, checked under SpecNB *)

\* the input the Loader's contract rejects: no file, or a table of no rows
NbRejectedInput ==
    csv.kind = "missing" \/ (csv.kind = "table" /\ csv.rows = <<>>)

\* C4: when the input file is missing or the table has zero rows, the
\* notebook tool ends with a non-zero exit status, and neither output_dir,
\* notebook_visualizations nor benchmark_analysis.ipynb is created.
C4_NotebookFailsFast ==
    NbRejectedInput =>
        /\ ~out_exists
        /\ ~vis_exists
        /\ NotebookFile \notin DOMAIN files
        /\ pc = "exited" => exit_code # 0

\* the cells of a notebook document
CellsOf(nb) == DictItem(nb, "cells")

\* C9: the written file parses back into the ordered list of cells that
\* was built in memory, and a second call on the same table, output
\* directory, report file and run name builds the same ordered cell list.
C9_NotebookRoundTripAndDeterministic ==
    /\ loaded.read => (loaded.ok /\ CellsOf(loaded.v) = PyList(cells))
    /\ (pc = "exited" /\ exit_code = 0 /\ rerun) =>
           (cells = prev_cells /\ files = prev_files)

HasPiece(s, p) == \E i \in 1..Len(s) : s[i] = p

\* a second call has ended and its file has been read back; the title and
\* the report carry characters json.dump escapes
C9_Witness ==
    /\ loaded.read
    /\ rerun
    /\ Len(cells) = 26
    /\ has_config_columns(df)
    /\ report.readable /\ HasPiece(report.text, Backslash)
    /\ HasPiece(run_name.s, Arrow)
    /\ CellsOf(loaded.v) = PyList(prev_cells)

CellShapeOk(cell) ==
    /\ cell.t = "dict"
    /\ \/ /\ DictItem(cell, "cell_type") = PyStr(<<"markdown">>)
          /\ ~HasKey(cell, "execution_count")
          /\ ~HasKey(cell, "outputs")
       \/ /\ DictItem(cell, "cell_type") = PyStr(<<"code">>)
          /\ HasKey(cell, "execution_count")
          /\ DictItem(cell, "execution_count") = PyNone
          /\ DictItem(cell, "outputs") = PyList(<<>>)

\* C10: every cell of the notebook is a markdown cell or a code cell; a
\* code cell has execution_count null and outputs [], a markdown cell has
\* neither field. Stated of the list being built and of the file read back.
C10_CellShapes ==
    /\ \A i \in 1..Len(cells) : CellShapeOk(cells[i])
    /\ loaded.read =>
          /\ CellsOf(loaded.v).t = "list"
          /\ \A i \in 1..Len(CellsOf(loaded.v).v) :
                 CellShapeOk(CellsOf(loaded.v).v[i])

\* a single-configuration notebook read back, holding both kinds of cell
C10_Witness ==
    /\ loaded.read /\ loaded.ok
    /\ ~has_config_columns(df)
    /\ Len(CellsOf(loaded.v).v) = 12
    /\ \E i, j \in 1..Len(CellsOf(loaded.v).v) :
          /\ DictItem(CellsOf(loaded.v).v[i], "cell_type") = PyStr(<<"code">>)
          /\ DictItem(CellsOf(loaded.v).v[j], "cell_type") = PyStr(<<"markdown">>)

\* the source of a cell is the one string s
SourceIs(cell, s) == DictItem(cell, "source") = StrList(<<s>>)

IsMarkdown(cell) == DictItem(cell, "cell_type") = PyStr(<<"markdown">>)

\* the source of a cell is one string that starts with the piece p
SourceStartsWith(cell, p) ==
    LET src == DictItem(cell, "source")
    IN  /\ src.t = "list" /\ Len(src.v) = 1
        /\ Len(src.v[1].v) >= 1 /\ src.v[1].v[1] = p

\* the report can be read: the path names a file and open/read succeed
ReportReadable == report.exists /\ report.readable

\* C11: when a report path is supplied, a readable file's full text is the
\* source of exactly one markdown cell; a file that cannot be read, one
\* that does not exist included, is replaced by an explanatory markdown
\* cell; either way the notebook is written and the run ends normally.
C11_ReportEmbeddedOrExplained ==
    (report.path /\ csv.kind = "table" /\ pc = "exited") =>
        /\ exit_code = 0
        /\ NotebookFile \in DOMAIN files
        /\ ReportReadable =>
              Cardinality({i \in 1..Len(cells) :
                  IsMarkdown(cells[i]) /\ SourceIs(cells[i], report.text)}) = 1
        /\ ~ReportReadable =>
              \E i \in 1..Len(cells) :
                  /\ IsMarkdown(cells[i])
                  /\ SourceStartsWith(cells[i], "Error loading benchmark report: ")

\* C12: a successful generate_notebook run leaves output_dir and
\* output_dir/notebook_visualizations in place and benchmark_analysis.ipynb
\* as the only file it wrote; the path printed last is that file's, no
\* image is in notebook_visualizations, and the exit status is 0.
C12_NotebookFrame ==
    /\ (pc = "exited" /\ error = "none") =>
          /\ exit_code = 0
          /\ out_exists /\ vis_exists
          /\ DOMAIN files = {NotebookFile}
          /\ written = <<NotebookFile>>
          /\ stdout[Len(stdout)] = "jupyter notebook out/benchmark_analysis.ipynb"
    /\ vis_files = <<>>

\* a run on a table has ended normally, its notebook on disk
C12_Witness ==
    /\ pc = "exited" /\ exit_code = 0
    /\ csv.kind = "table" /\ csv.rows # <<>>
    /\ NotebookFile \in DOMAIN files
    /\ vis_exists /\ vis_files = <<>>

\* the text with which a code cell starts a statement that saves an image
SaveFigCall == "plt.savefig(os.path.join(vis_dir, '"

\* the image names the code cells of cs save
SavedImages(cs) ==
    UNION {{DictItem(cs[i], "source").v[j].v[2] :
               j \in {j \in 1..Len(DictItem(cs[i], "source").v) :
                         /\ Len(DictItem(cs[i], "source").v[j].v) >= 2
                         /\ DictItem(cs[i], "source").v[j].v[1] = SaveFigCall}} :
           i \in {i \in 1..Len(cs) : DictItem(cs[i], "cell_type") = PyStr(<<"code">>)}}

\* C13: the image names saved by the emitted code cells are the Chart
\* Renderer's 6 comparative names when the table has the configuration
\* and validators columns, and its 8 single-configuration names otherwise.
C13_NotebookCatalogIsRenderers ==
    (pc = "exited" /\ exit_code = 0) =>
        SavedImages(cells) = IF has_config_columns(df) THEN ComparativeCatalog
                             ELSE SingleCatalog

----------------------------------------------------------------------------
(* Further properties of the Chart Renderer, checked under Spec *)

\* the series plots the ratio tps / cpu_usage of each row, in row order
IsEfficiencySeries(series, rows) ==
    /\ Len(series.y) = Len(rows)
    /\ \A i \in 1..Len(rows) : series.y[i] * rows[i]["cpu_usage"] = rows[i]["tps"]

\* the series plots the column ycol of each row, in row order
IsColumnSeries(series, rows, ycol) == series.y = Col(rows, ycol)

\* C15: performance_dashboard.png holds the TPS, latency, CPU, memory and
\* avg-tx-per-block panels and a panel of the efficiency ratio
\* tps / cpu_usage computed per row.
C15_DashboardHasEfficiencyPanel ==
    "performance_dashboard.png" \in DOMAIN files =>
        LET panels == files["performance_dashboard.png"]
            rows == SortValues(csv.rows, <<"block_time">>)
        IN  /\ \A c \in {"tps", "latency_ms", "cpu_usage", "memory_usage",
                        "avg_tx_per_block"} :
                  \E k \in 1..Len(panels) : IsColumnSeries(panels[k], rows, c)
            /\ \E k \in 1..Len(panels) : IsEfficiencySeries(panels[k], rows)

\* C16: rendering never removes, reorders or changes a row or a source
\* column value of the caller's table: in single mode the table stays as
\* loaded, in comparative mode the only change is the added config_type
\* column holding each row's ConfigKey; the sorted rows are a copy.
C16_CallersTableUnchanged ==
    df # NoDf =>
        /\ Len(df.rows) = Len(csv.rows)
        /\ csv.columns \subseteq df.columns
        /\ \A i \in 1..Len(csv.rows) : \A c \in csv.columns :
              df.rows[i][c] = csv.rows[i][c]
        /\ ~comparative => df.columns = csv.columns
        /\ comparative =>
              /\ df.columns \subseteq csv.columns \cup {"config_type"}
              /\ "config_type" \in df.columns =>
                    \A i \in 1..Len(csv.rows) :
                        df.rows[i]["config_type"] = ConfigType(csv.rows[i])
              /\ (pc = "exited" /\ exit_code = 0) => "config_type" \in df.columns

\* a single-mode run has ended normally on a table that was not in block
\* time order: the charts were drawn from the sorted copy
C16_Witness ==
    /\ ~comparative
    /\ pc = "exited" /\ exit_code = 0
    /\ sdf.rows # df.rows
    /\ df.rows = csv.rows

\* the metric columns in the order their charts are drawn, and the files
ChartColumns ==
    <<"tps", "latency_ms", "cpu_usage", "memory_usage", "blocks_produced",
      "avg_tx_per_block">>
ChartFiles ==
    <<"tps_vs_blocktime.png", "latency_vs_blocktime.png", "cpu_vs_blocktime.png",
      "memory_vs_blocktime.png", "blocks_vs_blocktime.png",
      "tx_per_block_vs_blocktime.png">>

\* single mode on a table with rows and block_time whose first missing
\* metric column is the k-th
FirstMissingIs(k) ==
    /\ ~comparative
    /\ IsTable /\ csv.rows # <<>>
    /\ "block_time" \in csv.columns
    /\ ChartColumns[k] \notin csv.columns
    /\ \A j \in 1..(k - 1) : ChartColumns[j] \in csv.columns

\* C17: in single mode with block_time present, if the column of the k-th
\* chart is missing, the run writes the files of charts 1..k-1 in order and
\* no other file, ends with an error instead of skipping the chart, and
\* deletes nothing that was on disk.
C17_MissingColumnAbortsAtItsChart ==
    \A k \in 1..Len(ChartColumns) :
        FirstMissingIs(k) =>
            /\ Len(written) <= k - 1
            /\ written = SubSeq(ChartFiles, 1, Len(written))
            /\ DOMAIN files \subseteq Range(SubSeq(ChartFiles, 1, k - 1))
            /\ DOMAIN prev_files \subseteq DOMAIN files
            /\ pc \notin {"combined_metrics", "performance_dashboard", "single_return"}
            /\ pc = "exited" =>
                  /\ error = "KeyError" /\ exit_code = 1
                  /\ written = SubSeq(ChartFiles, 1, k - 1)
                  /\ DOMAIN files = Range(written)

\* cpu_usage, the third chart's column, is missing: the run has died with
\* the first two charts on disk
C17_Witness ==
    /\ FirstMissingIs(3)
    /\ pc = "exited" /\ error = "KeyError"
    /\ written = <<"tps_vs_blocktime.png", "latency_vs_blocktime.png">>
    /\ DOMAIN files = {"tps_vs_blocktime.png", "latency_vs_blocktime.png"}

\* C18: during a renderer run at most one figure is open; the figure of a
\* chart is closed before the next chart begins, and none is open when the
\* run returns normally.
C18_OneFigureAtATime ==
    /\ figures \in {0, 1}
    /\ (pc # "exited" /\ ~in_chart) => figures = 0
    /\ (pc # "exited" /\ in_chart) => figures = 1
    /\ (pc = "exited" /\ exit_code = 0) => figures = 0

\* a comparative run has ended normally, all six figures saved and closed
C18_Witness ==
    /\ comparative
    /\ pc = "exited" /\ exit_code = 0
    /\ Len(written) = 6
    /\ figures = 0

\* the figure of the second chart is open, the first one saved and closed
C18_WitnessOpen ==
    /\ pc = "latency_vs_blocktime" /\ in_chart
    /\ written = <<"tps_vs_blocktime.png">>
    /\ figures = 1

----------------------------------------------------------------------------
(* Properties of the comparison charts *)

\* the ten keys the style tables know: five configurations, counts 1 and 4
KnownKeys ==
    {c \o "-" \o ToString(v) :
        c \in {"fauxmosis-comet", "fauxmosis-ufo", "osmosis-ufo-bridged",
               "osmosis-ufo-patched", "osmosis-comet"},
        v \in {1, 4}}

\* the ConfigKeys of the table in the file, in order of first appearance
KeysOfCsv == Unique([i \in 1..Len(csv.rows) |-> ConfigType(csv.rows[i])])

LineChartFiles ==
    {"tps_comparison.png", "latency_comparison.png", "cpu_comparison.png",
     "memory_comparison.png"}

\* C19: in comparative mode the color and the legend label of each series
\* are lookups on its ConfigKey: a known key gets the entries of the two
\* tables, any other key gets no color (None) and its own text as label,
\* and no key makes the run fail.
C19_StyleLookupsWithDefault ==
    /\ DOMAIN COLORS = KnownKeys /\ DOMAIN CONFIG_LABELS = KnownKeys
    /\ \A f \in LineChartFiles \cap DOMAIN files :
          /\ Len(files[f]) = Len(KeysOfCsv)
          /\ \A i \in 1..Len(KeysOfCsv) :
                LET k == KeysOfCsv[i]
                    series == files[f][i]
                IN  IF k \in KnownKeys
                    THEN series.color = COLORS[k] /\ series.label = CONFIG_LABELS[k]
                    ELSE series.color = NoColor /\ series.label = k
    /\ (pc = "exited" /\ csv.rows # <<>>) => (error = "none" /\ exit_code = 0)

\* a run on a key the tables do not hold and a known one has ended
\* normally: the first series has no color and the raw key as label, the
\* second the entries of the tables
C19_Witness ==
    /\ pc = "exited" /\ exit_code = 0
    /\ KeysOfCsv = <<"custom-chain-2", "osmosis-comet-1">>
    /\ files["tps_comparison.png"][1].color = NoColor
    /\ files["tps_comparison.png"][1].label = "custom-chain-2"
    /\ files["tps_comparison.png"][2].color = "#1f77b4"
    /\ files["tps_comparison.png"][2].label = "Osmosis+CometBFT (1 validator)"

\* a run on a known key has ended normally with that key's color and label
C19_WitnessKnown ==
    /\ pc = "exited" /\ exit_code = 0
    /\ KeysOfCsv = <<"osmosis-ufo-patched-4">>
    /\ files["memory_comparison.png"][1].color = "#b589dc"
    /\ files["memory_comparison.png"][1].label = "Osmosis+UFO Patched (4 validators)"

\* the column each comparison line chart draws against block_time
LineChartColumn(f) ==
    CASE f = "tps_comparison.png" -> "tps"
      [] f = "latency_comparison.png" -> "latency_ms"
      [] f = "cpu_comparison.png" -> "cpu_usage"
      [] f = "memory_comparison.png" -> "memory_usage"

\* how many points (x, y) a series holds
PointCount(series, x, y) ==
    Cardinality({j \in 1..Len(series.x) : series.x[j] = x /\ series.y[j] = y})

\* how many rows of the file have ConfigKey k and the point (x, y) in ycol
RowCount(k, ycol, x, y) ==
    Cardinality({j \in 1..Len(csv.rows) :
                    /\ ConfigType(csv.rows[j]) = k
                    /\ csv.rows[j]["block_time"] = x
                    /\ csv.rows[j][ycol] = y})

\* the values a cell of the file takes in column c
CellsOfColumn(c) == {csv.rows[j][c] : j \in 1..Len(csv.rows)}

\* C20: each saved comparison line chart (TPS, latency, CPU, memory) holds
\* exactly one series per distinct ConfigKey of the table, and the series
\* partition the rows: the series of a key holds the points of exactly the
\* rows of that key, each as often as the table holds it, so every row is
\* drawn once, in the series of its own key.
C20_OneSeriesPerKeyPartitionsRows ==
    \A f \in LineChartFiles \cap DOMAIN files :
        LET keys == {ConfigType(csv.rows[j]) : j \in 1..Len(csv.rows)}
            ycol == LineChartColumn(f)
            SeriesOf(k) == {i \in DOMAIN files[f] :
                               files[f][i].label = DictGet(CONFIG_LABELS, k, k)}
        IN  /\ Len(files[f]) = Cardinality(keys)
            /\ \A k \in keys :
                  /\ Cardinality(SeriesOf(k)) = 1
                  /\ \A i \in SeriesOf(k) :
                        /\ Len(files[f][i].x) = Len(files[f][i].y)
                        /\ \A x \in CellsOfColumn("block_time") :
                              \A y \in CellsOfColumn(ycol) :
                                 PointCount(files[f][i], x, y) = RowCount(k, ycol, x, y)
                        /\ \A j \in 1..Len(files[f][i].x) :
                              /\ files[f][i].x[j] \in CellsOfColumn("block_time")
                              /\ files[f][i].y[j] \in CellsOfColumn(ycol)

\* a table of two rows with different keys and different measurements has
\* been drawn: two series of one point each, each row in its own
C20_Witness ==
    /\ comparative
    /\ Len(csv.rows) = 2
    /\ LineChartFiles \subseteq DOMAIN files
    /\ ConfigType(csv.rows[1]) # ConfigType(csv.rows[2])
    /\ csv.rows[1]["tps"] # csv.rows[2]["tps"]
    /\ Len(files["tps_comparison.png"]) = 2
    /\ \A i \in 1..2 : Len(files["tps_comparison.png"][i].y) = 1
    /\ files["tps_comparison.png"][1].y # files["tps_comparison.png"][2].y

\* a table of two rows of one key has been drawn as one series of two points
C20_WitnessOneKey ==
    /\ comparative
    /\ Len(csv.rows) = 2
    /\ "tps_comparison.png" \in DOMAIN files
    /\ ConfigType(csv.rows[1]) = ConfigType(csv.rows[2])
    /\ Len(files["tps_comparison.png"]) = 1
    /\ Len(files["tps_comparison.png"][1].x) = 2

----------------------------------------------------------------------------
(* Properties of two invocations at once *)

\* C14: when two invocations, of either tool and in any mode, given
\* different output directories, have run interleaved in any order and
\* both have ended, the directory of each holds exactly the files, with the
\* content, that the invocation left there when it ran alone; a directory
\* that is the output directory of neither holds nothing; and the input
\* file of each is as it was.
C14_DifferentDirsDoNotInterfere ==
    (/\ phase = "together"
     /\ pc = "exited" /\ other.pc = "exited"
     /\ output_dir # other.output_dir)
    => /\ Content(output_dir) = solo[self]
       /\ Content(other.output_dir) = solo[other.self]
       /\ \A d \in Dirs \ {output_dir, other.output_dir} : Content(d) = Pristine
       /\ csv = start[self].csv
       /\ other.csv = start[other.self].csv

\* a chart run and a notebook run on different directories have both ended
\* after being switched while both were under way, and each has left files
C14_Witness ==
    /\ phase = "together"
    /\ pc = "exited" /\ other.pc = "exited"
    /\ output_dir # other.output_dir
    /\ mixed
    /\ start[1].pc = "start" /\ start[2].pc = "nb_start"
    /\ Cardinality(DOMAIN Content("out_a").files) = 8
    /\ NotebookFile \in DOMAIN Content("out_b").files
    /\ Content("out_b").vis_exists

\* two chart runs given the same directory have ended, and the directory
\* holds what neither leaves alone
C14_WitnessSameDir ==
    /\ phase = "together"
    /\ pc = "exited" /\ other.pc = "exited"
    /\ output_dir = other.output_dir
    /\ Content(output_dir) # solo[1]
    /\ Content(output_dir) # solo[2]

----------------------------------------------------------------------------
(* Comparative mode over block times at, inside and outside the edges of
   the three representative block times' tolerance *)

BucketMaxRows == 2

\* just below, at its lower end, at its upper end, just above: for 10, 100, 1000
BucketBlockTimes == {8, 9, 11, 12, 89, 90, 110, 111, 899, 900, 1100, 1101}

\* a measurement whose tps tells its block time
BucketRows ==
    {[configuration |-> "osmosis-comet", validators |-> v, block_time |-> b,
      tps |-> 2000 - b, latency_ms |-> 5, cpu_usage |-> 50, memory_usage |-> 30,
      blocks_produced |-> 12, avg_tx_per_block |-> 40] :
        v \in {1, 4}, b \in BucketBlockTimes}

BucketCsvFiles ==
    {[kind |-> "table", columns |-> AllColumns, rows |-> t] :
        t \in UNION {[1..k -> BucketRows] : k \in 0..BucketMaxRows}}

InitBuckets ==
    /\ csv \in BucketCsvFiles
    /\ comparative = TRUE
    /\ pc = "start"
    /\ df = NoDf
    /\ sdf = NoDf
    /\ configs = <<>>
    /\ out_exists = FALSE
    /\ files = <<>>
    /\ written = <<>>
    /\ stdout = <<>>
    /\ error = "none"
    /\ exit_code = -1
    /\ rerun = FALSE
    /\ prev_files = <<>>
    /\ report = NoReport
    /\ run_name = NoName
    /\ vis_exists = FALSE
    /\ cells = <<>>
    /\ loaded = NotLoaded
    /\ prev_cells = <<>>
    /\ vis_files = <<>>
    /\ figures = 0
    /\ in_chart = FALSE
    /\ OneInvocation

NextBuckets ==
    \/ ReadData
    \/ MainMakedirs
    \/ ComparativePrepare
    \/ TpsComparison
    \/ LatencyComparison
    \/ CpuComparison
    \/ MemoryComparison
    \/ ValidatorImpactChart
    \/ ComparativeDashboardChart
    \/ ComparativeReturn

SpecBuckets == InitBuckets /\ [][NextBuckets]_vars

----------------------------------------------------------------------------
(* Properties of the validator-impact bars *)

\* the block times within 10% of B, both ends included
Bucket(B) ==
    CASE B = 10 -> 9..11
      [] B = 100 -> 90..110
      [] B = 1000 -> 900..1100

\* the bars drawn for representative block time B, as <<validators, bar>>:
\* two per subplot of validator_impact.png in the order 1000, 100, 10, and
\* the last two artists of comparative_dashboard.png for 100
ImpactBars(B) ==
    (IF "validator_impact.png" \in DOMAIN files
     THEN LET n == CHOOSE i \in 1..3 : representative_block_times[i] = B
          IN  {<<1, files["validator_impact.png"][2 * n - 1]>>,
               <<4, files["validator_impact.png"][2 * n]>>}
     ELSE {})
    \cup
    (IF "comparative_dashboard.png" \in DOMAIN files /\ B = rep_block_time
     THEN LET d == files["comparative_dashboard.png"]
          IN  {<<1, d[Len(d) - 1]>>, <<4, d[Len(d)]>>}
     ELSE {})

\* the rows of the file with validator count v and block time in s
RowsIn(v, s) ==
    {j \in 1..Len(csv.rows) :
        csv.rows[j]["validators"] = v /\ csv.rows[j]["block_time"] \in s}

\* C21: a row is considered for the validator-impact bars of representative
\* block time B (1000, 100 or 10) exactly when 0.9*B <= block_time <= 1.1*B,
\* both ends included: a bar is the tps of a row of its validator count in
\* that range, and is 0 only when there is no such row; the three ranges
\* are pairwise disjoint; a row in none of them is in no bar.
C21_BucketIsTenPercentInclusive ==
    /\ \A B \in {10, 100, 1000} :
          \A vb \in ImpactBars(B) :
             /\ vb[2].kind = "bar"
             /\ Len(vb[2].y) = 1
             /\ IF RowsIn(vb[1], Bucket(B)) = {}
                THEN vb[2].y[1] = 0
                ELSE \E j \in RowsIn(vb[1], Bucket(B)) :
                        vb[2].y[1] = csv.rows[j]["tps"]
    /\ \A B1, B2 \in {10, 100, 1000} :
          B1 # B2 => Bucket(B1) \cap Bucket(B2) = {}

\* a row at the upper end of the range of 1000 is the bar of 1 validator
\* there, and a row just above it is in no bar of 4 validators
C21_Witness ==
    /\ "comparative_dashboard.png" \in DOMAIN files
    /\ Len(csv.rows) = 2
    /\ csv.rows[1]["block_time"] = 1101 /\ csv.rows[1]["validators"] = 4
    /\ csv.rows[2]["block_time"] = 1100 /\ csv.rows[2]["validators"] = 1
    /\ files["validator_impact.png"][1].y = <<900>>
    /\ \A i \in {2, 4, 6} : files["validator_impact.png"][i].y = <<0>>

\* a row at the lower end of the range of 100 is a bar of both files
C21_WitnessLower ==
    /\ "comparative_dashboard.png" \in DOMAIN files
    /\ Len(csv.rows) = 1
    /\ csv.rows[1]["block_time"] = 90 /\ csv.rows[1]["validators"] = 4
    /\ \E vb \in ImpactBars(100) : vb[1] = 4 /\ vb[2].y = <<1910>>
    /\ \A vb \in ImpactBars(100) : vb[1] = 4 => vb[2].y = <<1910>>

\* the rows of RowsIn(v, s) with the smallest block time among them
EarliestIn(v, s) ==
    {j \in RowsIn(v, s) :
        \A k \in RowsIn(v, s) : csv.rows[j]["block_time"] <= csv.rows[k]["block_time"]}

\* C24: when several rows of one configuration and validator count fall
\* into the range of one representative block time, the bar is the tps of
\* one row only, the one with the smallest block time (the first of the
\* table sorted by ConfigKey and block time), whatever the order of the
\* rows in the file; the others are not added to it or averaged with it.
C24_BarIsFirstMatchingRow ==
    \A B \in {10, 100, 1000} :
        \A vb \in ImpactBars(B) :
            RowsIn(vb[1], Bucket(B)) # {} =>
                /\ Len(vb[2].y) = 1
                /\ \E j \in EarliestIn(vb[1], Bucket(B)) :
                      vb[2].y[1] = csv.rows[j]["tps"]

\* two rows of one key in the range of 100, the later block time first in
\* the file: both bars for 4 validators show the tps of the row at 90
C24_Witness ==
    /\ "comparative_dashboard.png" \in DOMAIN files
    /\ Len(csv.rows) = 2
    /\ csv.rows[1]["block_time"] = 110 /\ csv.rows[1]["validators"] = 4
    /\ csv.rows[2]["block_time"] = 90 /\ csv.rows[2]["validators"] = 4
    /\ csv.rows[1]["tps"] = 1890 /\ csv.rows[2]["tps"] = 1910
    /\ files["validator_impact.png"][4].y = <<1910>>
    /\ \A vb \in ImpactBars(100) : vb[1] = 4 => vb[2].y = <<1910>>

----------------------------------------------------------------------------
(* The choice of the Chart Renderer's mode *)

\* C25: the Chart Renderer's mode is the --comparative flag, whatever the
\* columns of the table: without the flag every file written is one of the
\* 8 single-configuration files, and a table that has the configuration
\* and validators columns yields exactly those 8, each line chart with one
\* series of all the rows; with the flag every file written is one of the
\* comparative ones; so no run leaves files of both catalogs.
C25_ModeIsTheFlag ==
    /\ ~comparative => (DOMAIN files \subseteq SingleCatalog /\ configs = <<>>)
    /\ comparative => DOMAIN files \subseteq ComparativeCatalog
    /\ SingleCatalog \cap ComparativeCatalog = {}
    /\ (/\ pc = "exited" /\ ~comparative
        /\ IsTable /\ csv.columns = AllColumns /\ csv.rows # <<>>)
       => /\ exit_code = 0
          /\ DOMAIN files = SingleCatalog
          /\ \A f \in {"tps_vs_blocktime.png", "latency_vs_blocktime.png",
                       "cpu_vs_blocktime.png", "memory_vs_blocktime.png",
                       "blocks_vs_blocktime.png", "tx_per_block_vs_blocktime.png"} :
                /\ Len(files[f]) = 1
                /\ Len(files[f][1].x) = Len(csv.rows)

\* a run without the flag on a table of two configurations has ended: the
\* 8 single-configuration files, the tps chart one series of both rows
C25_Witness ==
    /\ pc = "exited" /\ exit_code = 0
    /\ ~comparative
    /\ IsTable /\ csv.columns = AllColumns
    /\ Len(csv.rows) = 2
    /\ csv.rows[1]["configuration"] # csv.rows[2]["configuration"]
    /\ DOMAIN files = SingleCatalog
    /\ Len(files["tps_vs_blocktime.png"]) = 1
    /\ Len(files["tps_vs_blocktime.png"][1].y) = 2

----------------------------------------------------------------------------
(* The cell sequence of the notebook *)

\* the title the notebook gets: the run name, or the default when none is
\* given or the one given is empty
TitleOf(name) ==
    IF name.given /\ name.s # <<>> THEN name.s ELSE <<"Benchmark Analysis">>

\* C22: the cell sequence of the emitted notebook starts with the title
\* markdown cell (the run name, 'Benchmark Analysis' without one) and ends
\* with the Conclusion markdown cell; it has 24 cells when the table has
\* both the configuration and the validators column and 12 otherwise, and
\* 2 more (the report heading, then the report text or the error text)
\* right before the Conclusion exactly when a report path is given and
\* exists; the comparative and single-configuration blocks never both appear.
C22_CellSequenceShape ==
    (pc = "exited" /\ exit_code = 0) =>
        LET n == Len(cells)
            both == has_config_columns(df)
            extra == report.path /\ report.exists
        IN  /\ n = (IF both THEN 24 ELSE 12) + (IF extra THEN 2 ELSE 0)
            /\ cells[1] = NbTitleCell(TitleOf(run_name))
            /\ IsMarkdown(cells[1])
            /\ cells[n] = NbConclusionCell
            /\ IsMarkdown(cells[n])
            /\ extra => /\ cells[n - 2] = NbReportHeading
                        /\ IsMarkdown(cells[n - 1])
                        /\ \/ SourceIs(cells[n - 1], report.text)
                           \/ cells[n - 1] = NbReportErrorCell(report.text)
            /\ ~extra => NbReportHeading \notin Range(cells)
            /\ IF both
               THEN /\ Range(ComparativeCells) \subseteq Range(cells)
                    /\ Range(SingleCells) \cap Range(cells) = {}
               ELSE /\ Range(SingleCells) \subseteq Range(cells)
                    /\ Range(ComparativeCells) \cap Range(cells) = {}

\* a notebook for a table with both columns, a run name, and a report file
\* that cannot be read: 26 cells, the last three the report heading, the
\* error text and the Conclusion
C22_Witness ==
    /\ pc = "exited" /\ exit_code = 0
    /\ has_config_columns(df)
    /\ run_name.given /\ run_name.s # <<>>
    /\ report.path /\ report.exists /\ ~report.readable
    /\ Len(cells) = 26
    /\ cells[24] = NbReportHeading
    /\ cells[25] = NbReportErrorCell(report.text)
    /\ cells[26] = NbConclusionCell

\* a notebook for a table without the validators column, no run name, and
\* a report path that does not exist: 12 cells
C22_WitnessSingle ==
    /\ pc = "exited" /\ exit_code = 0
    /\ "configuration" \in df.columns /\ "validators" \notin df.columns
    /\ ~run_name.given
    /\ report.path /\ ~report.exists
    /\ Len(cells) = 12
    /\ cells[1] = NbTitleCell(<<"Benchmark Analysis">>)

\* the table the notebook tool cannot tell from any other with the same
\* answer to: are both the configuration and the validators column there
HeaderOnly(both) ==
    [columns |-> IF both THEN ConfigColumns ELSE {}, rows |-> <<>>]

\* C23: the emitted notebook does not depend on the rows of the table: it
\* is the notebook emitted for a table without rows that agrees on whether
\* both the configuration and the validators column are present, for the
\* same report file and run name; so the validator-impact cells are there
\* even when the table has no row for validator count 1 or 4.
C23_NotebookIgnoresRows ==
    (pc = "exited" /\ exit_code = 0) =>
        LET expected == AnalysisCells(HeaderOnly(has_config_columns(df)), run_name)
                        \o ReportCells(report) \o <<NbConclusionCell>>
        IN  /\ cells = expected
            /\ files[NotebookFile] = DumpValue(Notebook(expected))
            /\ has_config_columns(df) =>
                  {NbValidatorImpactHeading, NbValidatorImpactCell} \subseteq Range(cells)

\* a notebook for a table whose only row has validator count 4 holds the
\* validator-impact cells
C23_Witness ==
    /\ pc = "exited" /\ exit_code = 0
    /\ has_config_columns(df)
    /\ Len(csv.rows) = 1
    /\ csv.rows[1]["validators"] = 4
    /\ NbValidatorImpactCell \in Range(cells)
    /\ NotebookFile \in DOMAIN files

----------------------------------------------------------------------------
(* The plotting code the notebook carries, when the notebook is run *)

\* mutant: the name table is keyed by ConfigKey, as the Chart Renderer's is
NB_CONFIG_NAMES_ByKey ==
    [k \in {"fauxmosis-comet-1", "fauxmosis-ufo-1", "osmosis-ufo-bridged-1",
            "osmosis-ufo-patched-1", "osmosis-comet-1"} |->
        CASE k = "fauxmosis-comet-1" -> "Fauxmosis with CometBFT"
          [] k = "fauxmosis-ufo-1" -> "Fauxmosis with UFO"
          [] k = "osmosis-ufo-bridged-1" -> "Osmosis with UFO (Bridged)"
          [] k = "osmosis-ufo-patched-1" -> "Osmosis with UFO (Patched)"
          [] k = "osmosis-comet-1" -> "Osmosis with CometBFT"]

\* CONFIG_NAMES of the imports cell, lines 101-107
NB_CONFIG_NAMES ==
    [k \in {"fauxmosis-comet", "fauxmosis-ufo", "osmosis-ufo-bridged",
            "osmosis-ufo-patched", "osmosis-comet"} |->
        CASE k = "fauxmosis-comet" -> "Fauxmosis with CometBFT"
          [] k = "fauxmosis-ufo" -> "Fauxmosis with UFO"
          [] k = "osmosis-ufo-bridged" -> "Osmosis with UFO (Bridged)"
          [] k = "osmosis-ufo-patched" -> "Osmosis with UFO (Patched)"
          [] k = "osmosis-comet" -> "Osmosis with CometBFT"]

\* CONFIG_COLORS of the imports cell, lines 93-99
NB_CONFIG_COLORS ==
    [k \in {"fauxmosis-comet", "fauxmosis-ufo", "osmosis-ufo-bridged",
            "osmosis-ufo-patched", "osmosis-comet"} |->
        CASE k = "fauxmosis-comet" -> "#ff7f0e"
          [] k = "fauxmosis-ufo" -> "#d62728"
          [] k = "osmosis-ufo-bridged" -> "#2ca02c"
          [] k = "osmosis-ufo-patched" -> "#9467bd"
          [] k = "osmosis-comet" -> "#1f77b4"]

\* sorted(df['config_type'].unique()) of a table that has the column
SortedConfigTypes(rows) ==
    Unique(Col(SortValues(rows, <<"config_type">>), "config_type"))

\* line 152: color_dict, config -> cmap(i % 10) of the palette 'tab10',
\* given here by the position of config in the sorted keys
color_dict(keys) == [i \in 1..Len(keys) |-> <<"tab10", (i - 1) % 10>>]

\* lines 154-158: the series the TPS comparison cell plots
NbTpsSeries(rows) ==
    LET keys == SortedConfigTypes(rows)
    IN  [i \in 1..Len(keys) |->
            Line(ConfigDf(rows, keys[i]), "tps",
                 DictGet(NB_CONFIG_NAMES, keys[i], keys[i]),
                 color_dict(keys)[i])]

\* the notebook is opened and its cells are run down to the TPS comparison
\* cell: lines 116-119 read the csv again, line 131 derives config_type,
\* lines 146-171 plot and save
NbRunTpsCell ==
    /\ pc = "exited"
    /\ exit_code = 0
    /\ NotebookFile \in DOMAIN files
    /\ \E i \in 1..Len(cells) : cells[i] = NbTpsComparisonCell
    /\ vis_exists
    /\ vis_files = <<>>
    /\ vis_files' = [n \in {"tps_comparison.png"} |->
                        NbTpsSeries(WithConfigType([columns |-> csv.columns,
                                                    rows |-> csv.rows]).rows)]
    /\ pc' = "notebook_run"
    /\ UNCHANGED <<parvars, figvars, report, run_name, vis_exists, cells, loaded,
                   prev_cells, csv, comparative, df, sdf, configs, out_exists,
                   files, written, stdout, error, exit_code, rerun, prev_files>>

\* the row of the key at position r of Python's string order
KeyRowAt(r) ==
    CHOOSE row \in KeyRows : StrRank(ConfigType(row)) = r

\* the tables of the n greatest keys, greatest first, one row each: from no
\* row up to all the keys, which are more than the palette has colors
RunCsvFiles ==
    {[kind |-> "table", columns |-> AllColumns,
      rows |-> [k \in 1..n |-> KeyRowAt(Cardinality(KeyRows) + 1 - k)]] :
        n \in 0..Cardinality(KeyRows)}

InitRun ==
    /\ csv \in RunCsvFiles
    /\ report = NoReport
    /\ run_name = NoName
    /\ comparative = FALSE
    /\ pc = "nb_start"
    /\ df = NoDf
    /\ sdf = NoDf
    /\ configs = <<>>
    /\ out_exists = FALSE
    /\ vis_exists = FALSE
    /\ files = <<>>
    /\ written = <<>>
    /\ stdout = <<>>
    /\ error = "none"
    /\ exit_code = -1
    /\ rerun = FALSE
    /\ prev_files = <<>>
    /\ cells = <<>>
    /\ loaded = NotLoaded
    /\ prev_cells = <<>>
    /\ vis_files = <<>>
    /\ figures = 0
    /\ in_chart = FALSE
    /\ OneInvocation

NextRun ==
    \/ NbReadData
    \/ NbMakedirs
    \/ NbMakeVisDir
    \/ NbBuildCells
    \/ NbAddReport
    \/ NbAddConclusion
    \/ NbWrite
    \/ NbReturn
    \/ NbRunTpsCell

SpecRun == InitRun /\ [][NextRun]_vars

\* the keys of the file in Python's string order, each once
KeysInOrder ==
    LET keys == {ConfigType(csv.rows[j]) : j \in 1..Len(csv.rows)}
    IN  [i \in 1..Cardinality(keys) |->
            CHOOSE k \in keys :
                Cardinality({k2 \in keys : StrRank(k2) < StrRank(k)}) = i - 1]

\* C26: in the plotting code the notebook carries for a table with both
\* columns, the name table is keyed by the five bare configuration names,
\* no ConfigKey (name, '-', validator count) is one of them, so every
\* series is labelled with its raw ConfigKey; and the color of a series is
\* the entry of the palette at the position of its key in sorted order,
\* modulo 10, not a color of the fixed color table.
C26_NotebookLabelsFallBack ==
    /\ DOMAIN NB_CONFIG_NAMES =
          {"fauxmosis-comet", "fauxmosis-ufo", "osmosis-ufo-bridged",
           "osmosis-ufo-patched", "osmosis-comet"}
    /\ "tps_comparison.png" \in DOMAIN vis_files =>
          LET series == vis_files["tps_comparison.png"]
          IN  /\ Len(series) = Len(KeysInOrder)
              /\ \A i \in 1..Len(series) :
                    /\ KeysInOrder[i] \notin DOMAIN NB_CONFIG_NAMES
                    /\ series[i].label = KeysInOrder[i]
                    /\ series[i].color = <<"tab10", (i - 1) % 10>>
                    /\ \A k \in DOMAIN NB_CONFIG_COLORS :
                          series[i].color # <<NB_CONFIG_COLORS[k]>>
                    /\ series[i].y = <<500>>

\* the notebook for a table of twelve keys has been run: the first series
\* is labelled custom-chain-4 (there is no custom-chain-1 or -2 in it), the
\* series of osmosis-comet-1 is labelled so and not 'Osmosis with CometBFT',
\* and the eleventh series has the first color of the palette again
C26_Witness ==
    /\ pc = "notebook_run"
    /\ Len(csv.rows) = 12
    /\ Len(vis_files["tps_comparison.png"]) = 12
    /\ \E i \in 1..12 : vis_files["tps_comparison.png"][i].label = "osmosis-comet-1"
    /\ vis_files["tps_comparison.png"][1].color = <<"tab10", 0>>
    /\ vis_files["tps_comparison.png"][10].color = <<"tab10", 9>>
    /\ vis_files["tps_comparison.png"][11].color = <<"tab10", 0>>

====
